---- MODULE Spec2Model ----
(***************************************************************************)
(* JD-Copilot: the query classifier (app/query_router.py) and the          *)
(* retriever (app/rag.py, retrieve_snippets) as a state machine.           *)
(*                                                                         *)
(* Text is a sequence of one-character strings, so that lower-casing,      *)
(* trimming, splitting, substring tests and the regular-expression         *)
(* searches are computed character by character as Python computes them.   *)
(***************************************************************************)
EXTENDS Integers, Sequences, FiniteSets, TLC

(***************************************************************************)
(* Python str primitives                                                   *)
(***************************************************************************)

\* str.lower() on one character (ASCII letters).
LowerChar(c) ==
    CASE c = "A" -> "a" [] c = "B" -> "b" [] c = "C" -> "c" [] c = "D" -> "d"
      [] c = "E" -> "e" [] c = "F" -> "f" [] c = "G" -> "g" [] c = "H" -> "h"
      [] c = "I" -> "i" [] c = "J" -> "j" [] c = "K" -> "k" [] c = "L" -> "l"
      [] c = "M" -> "m" [] c = "N" -> "n" [] c = "O" -> "o" [] c = "P" -> "p"
      [] c = "Q" -> "q" [] c = "R" -> "r" [] c = "S" -> "s" [] c = "T" -> "t"
      [] c = "U" -> "u" [] c = "V" -> "v" [] c = "W" -> "w" [] c = "X" -> "x"
      [] c = "Y" -> "y" [] c = "Z" -> "z" [] OTHER -> c

\* str.upper() on one character (ASCII letters).
UpperChar(c) ==
    CASE c = "a" -> "A" [] c = "b" -> "B" [] c = "c" -> "C" [] c = "d" -> "D"
      [] c = "e" -> "E" [] c = "f" -> "F" [] c = "g" -> "G" [] c = "h" -> "H"
      [] c = "i" -> "I" [] c = "j" -> "J" [] c = "k" -> "K" [] c = "l" -> "L"
      [] c = "m" -> "M" [] c = "n" -> "N" [] c = "o" -> "O" [] c = "p" -> "P"
      [] c = "q" -> "Q" [] c = "r" -> "R" [] c = "s" -> "S" [] c = "t" -> "T"
      [] c = "u" -> "U" [] c = "v" -> "V" [] c = "w" -> "W" [] c = "x" -> "X"
      [] c = "y" -> "Y" [] c = "z" -> "Z" [] OTHER -> c

Lower(s) == [i \in 1..Len(s) |-> LowerChar(s[i])]

Upper(s) == [i \in 1..Len(s) |-> UpperChar(s[i])]

\* Characters str.strip() and str.split() treat as whitespace, and \s matches.
IsSpace(c) == c \in {" ", "\n", "\t"}

IsDigit(c) == c \in {"0", "1", "2", "3", "4", "5", "6", "7", "8", "9"}

\* The regular-expression class \w on the characters of the model.
IsWordChar(c) == IsDigit(c) \/ c = "_" \/ LowerChar(c) # UpperChar(c)

\* needle occurs in hay at position p (1-based).
OccursAt(hay, needle, p) ==
    /\ p >= 1
    /\ p + Len(needle) - 1 <= Len(hay)
    /\ \A k \in 1..Len(needle) : hay[p + k - 1] = needle[k]

\* Python's `needle in hay` for strings.
StrIn(needle, hay) ==
    \E p \in 1..(Len(hay) - Len(needle) + 1) : OccursAt(hay, needle, p)

\* str.strip(): leading and trailing whitespace removed.
Strip(s) ==
    LET keep == {i \in 1..Len(s) : ~IsSpace(s[i])}
    IN  IF keep = {} THEN <<>>
        ELSE LET lo == CHOOSE i \in keep : \A j \in keep : i <= j
                 hi == CHOOSE i \in keep : \A j \in keep : i >= j
             IN  SubSeq(s, lo, hi)

RECURSIVE SplitFrom(_, _)
\* The words of s from position p on, as str.split() (no argument) yields them.
SplitFrom(s, p) ==
    IF p > Len(s) THEN <<>>
    ELSE IF IsSpace(s[p]) THEN SplitFrom(s, p + 1)
    ELSE LET ends == {e \in p..Len(s) : e = Len(s) \/ IsSpace(s[e + 1])}
             e == CHOOSE x \in ends : \A y \in ends : x <= y
         IN  <<SubSeq(s, p, e)>> \o SplitFrom(s, e + 1)

\* str.split() with no argument: the whitespace-separated words.
Split(s) == SplitFrom(s, 1)

RECURSIVE Join(_, _)
\* sep.join(words)
Join(sep, words) ==
    IF Len(words) = 0 THEN <<>>
    ELSE IF Len(words) = 1 THEN words[1]
    ELSE words[1] \o sep \o Join(sep, Tail(words))

\* s.replace(" ", ""): every space character removed.
RemoveSpaces(s) == SelectSeq(s, LAMBDA c : c # " ")

RECURSIVE SplitOnFrom(_, _, _)
\* The parts of s from position p on, as s.split(sep) yields them (sep non-empty).
SplitOnFrom(s, sep, p) ==
    LET hits == {q \in p..(Len(s) - Len(sep) + 1) : OccursAt(s, sep, q)}
    IN  IF hits = {} THEN <<SubSeq(s, p, Len(s))>>
        ELSE LET q == CHOOSE x \in hits : \A y \in hits : x <= y
             IN  <<SubSeq(s, p, q - 1)>> \o SplitOnFrom(s, sep, q + Len(sep))

\* Python's s.split(sep).
SplitOn(s, sep) == SplitOnFrom(s, sep, 1)

\* s[:n] for n >= 0.
Prefix(s, n) == SubSeq(s, 1, IF n < Len(s) THEN n ELSE Len(s))

(***************************************************************************)
(* Regular-expression search, for the patterns the router uses: a pattern  *)
(* is a sequence of pieces joined by `.*`, a piece a set of alternative    *)
(* literals.  `.` matches any character but a newline.                     *)
(***************************************************************************)

RECURSIVE MatchPieces(_, _, _, _)
\* Pieces k.. of the pattern match in text, piece k starting at or after pos
\* (for k > 1 the characters skipped are matched by `.*`).
MatchPieces(text, pieces, k, pos) ==
    IF k > Len(pieces) THEN TRUE
    ELSE \E lit \in pieces[k] :
           \E p \in pos..(Len(text) - Len(lit) + 1) :
              /\ OccursAt(text, lit, p)
              /\ k > 1 => \A i \in pos..(p - 1) : text[i] # "\n"
              /\ MatchPieces(text, pieces, k + 1, p + Len(lit))

\* re.search(pattern, text) is not None
ReSearch(pattern, text) == MatchPieces(text, pattern, 1, 1)

\* (?:marketing|finance|hr|operations|strategy|it|analytics)
SpecializationAlt ==
    {<<"m","a","r","k","e","t","i","n","g">>,
     <<"f","i","n","a","n","c","e">>,
     <<"h","r">>,
     <<"o","p","e","r","a","t","i","o","n","s">>,
     <<"s","t","r","a","t","e","g","y">>,
     <<"i","t">>,
     <<"a","n","a","l","y","t","i","c","s">>}

\* self.structured_patterns: each pattern is its literal pieces, joined by `.*` in the source.
structured_patterns ==
    <<
      <<{<<"h","o","w"," ","m","a","n","y"," ","c","o","m","p","a","n","i","e","s">>}>>,   \* how many companies
      <<{<<"c","o","u","n","t">>}, {<<"c","o","m","p","a","n","i","e","s">>}>>,   \* count.*companies
      <<{<<"t","o","t","a","l">>}, {<<"c","o","m","p","a","n","i","e","s">>}>>,   \* total.*companies
      <<{<<"m","e","d","i","a","n"," ","s","a","l","a","r","y">>}>>,   \* median salary
      <<{<<"a","v","e","r","a","g","e"," ","s","a","l","a","r","y">>}>>,   \* average salary
      <<{<<"s","a","l","a","r","y"," ","r","a","n","g","e">>}>>,   \* salary range
      <<{<<"h","i","g","h","e","s","t"," ","s","a","l","a","r","y">>}>>,   \* highest salary
      <<{<<"l","o","w","e","s","t"," ","s","a","l","a","r","y">>}>>,   \* lowest salary
      <<{<<"n","u","m","b","e","r"," ","o","f"," ","r","o","l","e","s">>}>>,   \* number of roles
      <<{<<"t","o","t","a","l"," ","r","o","l","e","s">>}>>,   \* total roles
      <<{<<"p","l","a","c","e","m","e","n","t"," ","s","t","a","t","i","s","t","i","c","s">>}>>,   \* placement statistics
      <<{<<"p","l","a","c","e","m","e","n","t"," ","d","a","t","a">>}>>,   \* placement data
      <<{<<"s","a","l","a","r","y"," ","s","t","a","t","i","s","t","i","c","s">>}>>,   \* salary statistics
      <<{<<"c","o","m","p","a","n","y"," ","c","o","u","n","t">>}>>,   \* company count
      <<{<<"r","o","l","e"," ","c","o","u","n","t">>}>>,   \* role count
      <<{<<"w","h","i","c","h"," ","c","o","m","p","a","n","i","e","s">>}, SpecializationAlt>>,   \* which companies.*(?:...)
      <<{<<"c","o","m","p","a","n","i","e","s">>}, SpecializationAlt>>,   \* companies.*(?:...)
      <<SpecializationAlt, {<<"c","o","m","p","a","n","i","e","s">>}>>   \* (?:...).*companies
    >>

\* self.unstructured_patterns: each pattern is its literal pieces, joined by `.*` in the source.
unstructured_patterns ==
    <<
      <<{<<"w","h","a","t"," ","s","k","i","l","l","s">>}>>,   \* what skills
      <<{<<"k","e","y"," ","s","k","i","l","l","s">>}>>,   \* key skills
      <<{<<"r","e","q","u","i","r","e","d"," ","s","k","i","l","l","s">>}>>,   \* required skills
      <<{<<"s","k","i","l","l","s"," ","n","e","e","d","e","d">>}>>,   \* skills needed
      <<{<<"c","o","m","p","a","n","y"," ","c","u","l","t","u","r","e">>}>>,   \* company culture
      <<{<<"w","o","r","k"," ","e","n","v","i","r","o","n","m","e","n","t">>}>>,   \* work environment
      <<{<<"j","o","b"," ","d","e","s","c","r","i","p","t","i","o","n">>}>>,   \* job description
      <<{<<"r","o","l","e"," ","d","e","s","c","r","i","p","t","i","o","n">>}>>,   \* role description
      <<{<<"r","e","s","p","o","n","s","i","b","i","l","i","t","i","e","s">>}>>,   \* responsibilities
      <<{<<"r","e","q","u","i","r","e","m","e","n","t","s">>}>>,   \* requirements
      <<{<<"w","h","a","t"," ","d","o","e","s">>}, {<<"d","o">>}>>,   \* what does.*do
      <<{<<"h","o","w"," ","t","o"," ","p","r","e","p","a","r","e">>}>>,   \* how to prepare
      <<{<<"c","a","r","e","e","r"," ","a","d","v","i","c","e">>}>>,   \* career advice
      <<{<<"j","o","b"," ","r","e","q","u","i","r","e","m","e","n","t","s">>}>>,   \* job requirements
      <<{<<"r","o","l","e"," ","r","e","q","u","i","r","e","m","e","n","t","s">>}>>,   \* role requirements
      <<{<<"f","u","l","l"," ","j","d">>}>>,   \* full jd
      <<{<<"c","o","m","p","l","e","t","e"," ","j","d">>}>>,   \* complete jd
      <<{<<"e","n","t","i","r","e"," ","j","d">>}>>,   \* entire jd
      <<{<<"f","u","l","l"," ","j","o","b"," ","d","e","s","c","r","i","p","t","i","o","n">>}>>,   \* full job description
      <<{<<"c","o","m","p","l","e","t","e"," ","j","o","b"," ","d","e","s","c","r","i","p","t","i","o","n">>}>>,   \* complete job description
      <<{<<"e","n","t","i","r","e"," ","j","o","b"," ","d","e","s","c","r","i","p","t","i","o","n">>}>>,   \* entire job description
      <<{<<"s","h","o","w"," ","m","e">>}, {<<"j","d">>}>>,   \* show me.*jd
      <<{<<"g","i","v","e">>}, {<<"j","d">>}>>,   \* give.*jd
      <<{<<"w","h","a","t"," ","i","s">>}, {<<"j","d">>}>>   \* what is.*jd
    >>

\* self.hybrid_patterns: each pattern is its literal pieces, joined by `.*` in the source.
hybrid_patterns ==
    <<
      <<{<<"c","o","m","p","a","r","e">>}, {<<"s","a","l","a","r","y">>}>>,   \* compare.*salary
      <<{<<"c","o","m","p","a","r","e">>}, {<<"s","k","i","l","l","s">>}>>,   \* compare.*skills
      <<{<<"c","o","m","p","a","r","e">>}, {<<"c","o","m","p","a","n","i","e","s">>}>>,   \* compare.*companies
      <<{<<"v","s">>}, {<<"s","a","l","a","r","y">>}>>,   \* vs.*salary
      <<{<<"v","s">>}, {<<"s","k","i","l","l","s">>}>>,   \* vs.*skills
      <<{<<"s","a","l","a","r","y">>}, {<<"s","k","i","l","l","s">>}>>,   \* salary.*skills
      <<{<<"s","k","i","l","l","s">>}, {<<"s","a","l","a","r","y">>}>>,   \* skills.*salary
      <<{<<"c","o","m","p","a","n","y">>}, {<<"s","a","l","a","r","y">>}, {<<"s","k","i","l","l","s">>}>>   \* company.*salary.*skills
    >>

\* self.multi_hop_patterns: each pattern is its literal pieces, joined by `.*` in the source.
multi_hop_patterns ==
    <<
      <<{<<"a","m","o","n","g">>}, {<<"s","a","l","a","r","y">>}, {<<"s","k","i","l","l","s">>}>>,   \* among.*salary.*skills
      <<{<<"c","o","m","p","a","n","i","e","s">>}, {<<"s","a","l","a","r","y">>}, {<<"w","h","a","t"," ","s","k","i","l","l","s">>}>>,   \* companies.*salary.*what skills
      <<{<<"h","i","g","h"," ","p","a","y","i","n","g">>}, {<<"s","k","i","l","l","s">>}>>,   \* high paying.*skills
      <<{<<"t","o","p"," ","p","a","y","i","n","g">>}, {<<"r","e","q","u","i","r","e","m","e","n","t","s">>}>>,   \* top paying.*requirements
      <<{<<"b","e","s","t"," ","c","o","m","p","a","n","i","e","s">>}, {<<"s","k","i","l","l","s">>}>>   \* best companies.*skills
    >>

\* QueryRouter._matches_patterns
MatchesPatterns(text, patterns) ==
    \E i \in 1..Len(patterns) : ReSearch(patterns[i], text)

(***************************************************************************)
(* Parameter extraction (QueryRouter._extract_*_params).  A params mapping *)
(* is a function from key names to values.                                 *)
(***************************************************************************)

\* params[key] = value on a Python dict
Put(params, key, value) ==
    [k \in DOMAIN params \cup {key} |-> IF k = key THEN value ELSE params[k]]

Min(S) == CHOOSE x \in S : \A y \in S : x <= y

DigitVal(c) ==
    CASE c = "0" -> 0 [] c = "1" -> 1 [] c = "2" -> 2 [] c = "3" -> 3
      [] c = "4" -> 4 [] c = "5" -> 5 [] c = "6" -> 6 [] c = "7" -> 7
      [] c = "8" -> 8 [] c = "9" -> 9

RECURSIVE IntOf(_)
\* int(s) for a string of decimal digits
IntOf(s) ==
    IF Len(s) = 0 THEN 0
    ELSE 10 * IntOf(SubSeq(s, 1, Len(s) - 1)) + DigitVal(s[Len(s)])

\* str.title() on the lower-case specialization keywords
Title(s) ==
    [i \in 1..Len(s) |->
        IF i = 1 \/ LowerChar(s[i - 1]) = UpperChar(s[i - 1])
        THEN UpperChar(s[i]) ELSE LowerChar(s[i])]

\* mba_specializations, in list order
mba_specializations ==
    << <<"m","a","r","k","e","t","i","n","g">>, <<"f","i","n","a","n","c","e">>, <<"h","r">>, <<"o","p","e","r","a","t","i","o","n","s">>, <<"s","t","r","a","t","e","g","y">>, <<"i","t">>, <<"a","n","a","l","y","t","i","c","s">>,
       <<"h","u","m","a","n"," ","r","e","s","o","u","r","c","e","s">>, <<"s","u","p","p","l","y"," ","c","h","a","i","n">>, <<"c","o","n","s","u","l","t","i","n","g">>, <<"d","i","g","i","t","a","l"," ","t","r","a","n","s","f","o","r","m","a","t","i","o","n">> >>

\* _extract_structured_params with the loop over the specializations not left
\* at the first hit: the last keyword that occurs stays in params.
extract_structured_params_no_break(question) ==
    LET p0 == [k \in {"query"} |-> question]
        \* re.search(r"(\d{4})", question)
        years == {p \in 1..(Len(question) - 3) :
                     \A k \in 0..3 : IsDigit(question[p + k])}
        p1 == IF years # {}
              THEN Put(p0, "year", IntOf(SubSeq(question, Min(years), Min(years) + 3)))
              ELSE p0
        specs == {i \in 1..Len(mba_specializations) :
                     StrIn(mba_specializations[i], Lower(question))}
        p2 == IF specs # {}
              THEN Put(p1, "specialization", Title(mba_specializations[CHOOSE i \in specs : \A j \in specs : i >= j]))
              ELSE p1
        p3 == IF StrIn(<<"s","a","l","a","r","y">>, question)
              THEN IF StrIn(<<"m","e","d","i","a","n">>, question) THEN Put(p2, "metric", "median")
                   ELSE IF StrIn(<<"a","v","e","r","a","g","e">>, question) \/ StrIn(<<"a","v","g">>, question)
                        THEN Put(p2, "metric", "average")
                   ELSE IF StrIn(<<"r","a","n","g","e">>, question) THEN Put(p2, "metric", "range")
                   ELSE IF StrIn(<<"h","i","g","h","e","s","t">>, question) \/ StrIn(<<"m","a","x">>, question)
                        THEN Put(p2, "metric", "max")
                   ELSE IF StrIn(<<"l","o","w","e","s","t">>, question) \/ StrIn(<<"m","i","n">>, question)
                        THEN Put(p2, "metric", "min")
                   ELSE p2
              ELSE p2
        p4 == IF StrIn(<<"c","o","u","n","t">>, question) \/ StrIn(<<"h","o","w"," ","m","a","n","y">>, question)
              THEN IF StrIn(<<"c","o","m","p","a","n","i","e","s">>, question) THEN Put(p3, "entity", "companies")
                   ELSE IF StrIn(<<"r","o","l","e","s">>, question) THEN Put(p3, "entity", "roles")
                   ELSE IF StrIn(<<"o","f","f","e","r","s">>, question) THEN Put(p3, "entity", "offers")
                   ELSE p3
              ELSE p3
    IN  p4

\* QueryRouter._extract_structured_params
extract_structured_params(question) ==
    LET p0 == [k \in {"query"} |-> question]
        \* re.search(r"(\d{4})", question)
        years == {p \in 1..(Len(question) - 3) :
                     \A k \in 0..3 : IsDigit(question[p + k])}
        p1 == IF years # {}
              THEN Put(p0, "year", IntOf(SubSeq(question, Min(years), Min(years) + 3)))
              ELSE p0
        specs == {i \in 1..Len(mba_specializations) :
                     StrIn(mba_specializations[i], Lower(question))}
        p2 == IF specs # {}
              THEN Put(p1, "specialization", Title(mba_specializations[Min(specs)]))
              ELSE p1
        p3 == IF StrIn(<<"s","a","l","a","r","y">>, question)
              THEN IF StrIn(<<"m","e","d","i","a","n">>, question) THEN Put(p2, "metric", "median")
                   ELSE IF StrIn(<<"a","v","e","r","a","g","e">>, question) \/ StrIn(<<"a","v","g">>, question)
                        THEN Put(p2, "metric", "average")
                   ELSE IF StrIn(<<"r","a","n","g","e">>, question) THEN Put(p2, "metric", "range")
                   ELSE IF StrIn(<<"h","i","g","h","e","s","t">>, question) \/ StrIn(<<"m","a","x">>, question)
                        THEN Put(p2, "metric", "max")
                   ELSE IF StrIn(<<"l","o","w","e","s","t">>, question) \/ StrIn(<<"m","i","n">>, question)
                        THEN Put(p2, "metric", "min")
                   ELSE p2
              ELSE p2
        p4 == IF StrIn(<<"c","o","u","n","t">>, question) \/ StrIn(<<"h","o","w"," ","m","a","n","y">>, question)
              THEN IF StrIn(<<"c","o","m","p","a","n","i","e","s">>, question) THEN Put(p3, "entity", "companies")
                   ELSE IF StrIn(<<"r","o","l","e","s">>, question) THEN Put(p3, "entity", "roles")
                   ELSE IF StrIn(<<"o","f","f","e","r","s">>, question) THEN Put(p3, "entity", "offers")
                   ELSE p3
              ELSE p3
    IN  p4

\* re.search(r"(\w+)\s+skills?", question): the starts of the word runs that
\* are followed by whitespace and then "skill".
SkillTypeStarts(question) ==
    {p \in 1..Len(question) :
        /\ IsWordChar(question[p])
        /\ p = 1 \/ ~IsWordChar(question[p - 1])
        /\ \E e \in p..Len(question) :
              /\ \A i \in p..e : IsWordChar(question[i])
              /\ \E s \in (e + 2)..Len(question) :
                    /\ \A i \in (e + 1)..(s - 1) : IsSpace(question[i])
                    /\ OccursAt(question, <<"s","k","i","l","l">>, s)}

\* group(1) of that search: the word run starting at p
WordRunAt(question, p) ==
    LET ends == {e \in p..Len(question) :
                    /\ \A i \in p..e : IsWordChar(question[i])
                    /\ e = Len(question) \/ ~IsWordChar(question[e + 1])}
    IN  SubSeq(question, p, Min(ends))

\* QueryRouter._extract_unstructured_params
extract_unstructured_params(question) ==
    LET p0 == [k \in {"query"} |-> question]
        p1 == IF StrIn(<<"s","k","i","l","l">>, question)
              THEN LET f == Put(p0, "focus", "skills")
                   IN  IF SkillTypeStarts(question) # {}
                       THEN Put(f, "skill_type",
                                WordRunAt(question, Min(SkillTypeStarts(question))))
                       ELSE f
              ELSE p0
        p2 == IF StrIn(<<"r","o","l","e">>, question) THEN Put(p1, "focus", "role_description") ELSE p1
        p3 == IF StrIn(<<"c","u","l","t","u","r","e">>, question) \/ StrIn(<<"e","n","v","i","r","o","n","m","e","n","t">>, question)
              THEN Put(p2, "focus", "company_culture") ELSE p2
    IN  p3

RECURSIVE EntityRuns(_, _)
\* re.findall(r"(\w+(?:\s+\w+)*)", question) from position p on: the maximal
\* runs of words separated by whitespace.
EntityRuns(question, p) ==
    IF p > Len(question) THEN <<>>
    ELSE IF ~IsWordChar(question[p]) THEN EntityRuns(question, p + 1)
    ELSE LET ends == {e \in p..Len(question) :
                         /\ IsWordChar(question[e])
                         /\ \A i \in p..e : IsWordChar(question[i]) \/ IsSpace(question[i])}
             e == CHOOSE x \in ends : \A y \in ends : x >= y
         IN  <<SubSeq(question, p, e)>> \o EntityRuns(question, e + 1)

\* extract_hybrid_params with the params mapping started empty (`params = {}`).
extract_hybrid_params_no_query(question) ==
    LET p0 == <<>>
        p1 == IF StrIn(<<"c","o","m","p","a","r","e">>, question)
              THEN Put(p0, "compare_entities",
                       SelectSeq(EntityRuns(question, 1), LAMBDA c : Len(Split(c)) <= 3))
              ELSE p0
        p2 == IF StrIn(<<"s","a","l","a","r","y">>, question) THEN Put(p1, "compare_salary", TRUE) ELSE p1
        p3 == IF StrIn(<<"s","k","i","l","l">>, question) THEN Put(p2, "compare_skills", TRUE) ELSE p2
    IN  p3

\* QueryRouter._extract_hybrid_params
extract_hybrid_params(question) ==
    LET p0 == [k \in {"query"} |-> question]
        p1 == IF StrIn(<<"c","o","m","p","a","r","e">>, question)
              THEN Put(p0, "compare_entities",
                       SelectSeq(EntityRuns(question, 1), LAMBDA c : Len(Split(c)) <= 3))
              ELSE p0
        p2 == IF StrIn(<<"s","a","l","a","r","y">>, question) THEN Put(p1, "compare_salary", TRUE) ELSE p1
        p3 == IF StrIn(<<"s","k","i","l","l">>, question) THEN Put(p2, "compare_skills", TRUE) ELSE p2
    IN  p3

\* (?:>|>=|less than|more than)
SalaryComparators == {<<">">>, <<">","=">>, <<"l","e","s","s"," ","t","h","a","n">>, <<"m","o","r","e"," ","t","h","a","n">>}

\* The number of re.search(r"salary\s*(?:>|>=|less than|more than)\s*(\d+(?:\.\d+)?)"):
\* a match starts at an occurrence s of "salary"; the result is <<s, d>>, d the
\* position of the first digit of group(1).
SalaryMatches(question) ==
    {sd \in (1..Len(question)) \X (1..Len(question)) :
        /\ OccursAt(question, <<"s","a","l","a","r","y">>, sd[1])
        /\ IsDigit(question[sd[2]])
        /\ \E op \in SalaryComparators :
              \E o \in (sd[1] + 6)..(sd[2] - Len(op)) :
                 /\ OccursAt(question, op, o)
                 /\ \A i \in (sd[1] + 6)..(o - 1) : IsSpace(question[i])
                 /\ \A i \in (o + Len(op))..(sd[2] - 1) : IsSpace(question[i])}

\* The end of the maximal run of digits starting at p (p - 1 when there is none).
DigitRunEnd(question, p) ==
    LET stops == {e \in (p - 1)..Len(question) :
                     /\ \A i \in p..e : IsDigit(question[i])
                     /\ e = Len(question) \/ ~IsDigit(question[e + 1])}
    IN  Min(stops)

\* float(s) for s matching \d+(?:\.\d+)?: the whole part and the fraction
\* digits without trailing zeros ("10", "10.0" and "10.00" are one float).
FloatOf(whole, frac) ==
    LET sig == {i \in 1..Len(frac) : frac[i] # "0"}
        last == IF sig = {} THEN 0 ELSE CHOOSE i \in sig : \A j \in sig : i >= j
    IN  [whole |-> IntOf(whole), frac |-> SubSeq(frac, 1, last)]

\* QueryRouter._extract_multi_hop_params
extract_multi_hop_params(question) ==
    LET p0 == [k \in {"query"} |-> question]
        ms == SalaryMatches(question)
        p1 == IF StrIn(<<"s","a","l","a","r","y">>, question) /\ ms # {}
              THEN LET s == Min({sd[1] : sd \in ms})
                       d == CHOOSE x \in 1..Len(question) : <<s, x>> \in ms
                       e == DigitRunEnd(question, d)
                       hasFrac == /\ e + 2 <= Len(question)
                                  /\ question[e + 1] = "."
                                  /\ IsDigit(question[e + 2])
                       f == IF hasFrac
                            THEN SubSeq(question, e + 2, DigitRunEnd(question, e + 2))
                            ELSE <<>>
                   IN  Put(Put(p0, "salary_threshold", FloatOf(SubSeq(question, d, e), f)),
                           "salary_operator",
                           IF StrIn(<<">">>, question) THEN ">" ELSE "<")
              ELSE p0
        p2 == IF StrIn(<<"s","k","i","l","l","s">>, question) THEN Put(p1, "target_info", "skills")
              ELSE IF StrIn(<<"r","e","q","u","i","r","e","m","e","n","t","s">>, question)
                   THEN Put(p1, "target_info", "requirements")
              ELSE p1
    IN  p2

\* classify_query with the structured group tested before the multi-hop one.
classify_query_structured_first(question) ==
    LET question_lower == Lower(question)
    IN  IF MatchesPatterns(question_lower, structured_patterns)
        THEN [type |-> "structured", params |-> extract_structured_params(question_lower)]
        ELSE IF MatchesPatterns(question_lower, multi_hop_patterns)
        THEN [type |-> "multi_hop", params |-> extract_multi_hop_params(question_lower)]
        ELSE IF MatchesPatterns(question_lower, hybrid_patterns)
        THEN [type |-> "hybrid", params |-> extract_hybrid_params(question_lower)]
        ELSE IF MatchesPatterns(question_lower, unstructured_patterns)
        THEN [type |-> "unstructured",
              params |-> extract_unstructured_params(question_lower)]
        ELSE [type |-> "unstructured", params |-> [k \in {"query"} |-> question]]

\* classify_query whose default branch returns the lower-cased question.
classify_query_default_lowered(question) ==
    LET question_lower == Lower(question)
    IN  IF MatchesPatterns(question_lower, multi_hop_patterns)
        THEN [type |-> "multi_hop", params |-> extract_multi_hop_params(question_lower)]
        ELSE IF MatchesPatterns(question_lower, hybrid_patterns)
        THEN [type |-> "hybrid", params |-> extract_hybrid_params(question_lower)]
        ELSE IF MatchesPatterns(question_lower, structured_patterns)
        THEN [type |-> "structured", params |-> extract_structured_params(question_lower)]
        ELSE IF MatchesPatterns(question_lower, unstructured_patterns)
        THEN [type |-> "unstructured",
              params |-> extract_unstructured_params(question_lower)]
        ELSE [type |-> "unstructured", params |-> [k \in {"query"} |-> question_lower]]

\* QueryRouter.classify_query: the QueryType (its value) and the params.
classify_query(question) ==
    LET question_lower == Lower(question)
    IN  IF MatchesPatterns(question_lower, multi_hop_patterns)
        THEN [type |-> "multi_hop", params |-> extract_multi_hop_params(question_lower)]
        ELSE IF MatchesPatterns(question_lower, hybrid_patterns)
        THEN [type |-> "hybrid", params |-> extract_hybrid_params(question_lower)]
        ELSE IF MatchesPatterns(question_lower, structured_patterns)
        THEN [type |-> "structured", params |-> extract_structured_params(question_lower)]
        ELSE IF MatchesPatterns(question_lower, unstructured_patterns)
        THEN [type |-> "unstructured",
              params |-> extract_unstructured_params(question_lower)]
        ELSE [type |-> "unstructured", params |-> [k \in {"query"} |-> question]]

(***************************************************************************)
(* The retriever (app/rag.py, retrieve_snippets).                          *)
(*                                                                         *)
(* A match of the vector index is [id, score, metadata]; the metadata has  *)
(* company and role (None when the key is absent) and the lengths of its   *)
(* chunk_text and preview fields (0 when absent or empty).  A text is      *)
(* represented by the field it is read from and its length: the passage    *)
(* text [field, len] is the first len characters of that metadata field.   *)
(* Scores are in hundredths.                                               *)
(***************************************************************************)

\* Python's None, where a string may also stand.
None == <<"None">>

\* Python truthiness of an optional string: neither None nor "".
Truthy(s) == s # None /\ s # <<>>

MAX_SNIPPET_CHARS == 400

MAX_FULL_JD_CHARS == 10000

\* The phrases of is_full_jd_request.
FullJdPhrases ==
    { <<"f","u","l","l"," ","j","d">>, <<"c","o","m","p","l","e","t","e"," ","j","d">>, <<"e","n","t","i","r","e"," ","j","d">>, <<"f","u","l","l"," ","j","o","b"," ","d","e","s","c","r","i","p","t","i","o","n">>,
      <<"c","o","m","p","l","e","t","e"," ","j","o","b"," ","d","e","s","c","r","i","p","t","i","o","n">>, <<"e","n","t","i","r","e"," ","j","o","b"," ","d","e","s","c","r","i","p","t","i","o","n">>, <<"s","h","o","w"," ","m","e"," ","j","d">>, <<"g","i","v","e"," ","j","d">> }

\* is_full_jd_request
is_full_jd_request(question) ==
    \E phrase \in FullJdPhrases : StrIn(phrase, Lower(question))

\* snippet_limit without the full-document switch.
snippet_limit_always_small(question) == MAX_SNIPPET_CHARS

\* snippet_limit
snippet_limit(question) ==
    IF is_full_jd_request(question) THEN MAX_FULL_JD_CHARS ELSE MAX_SNIPPET_CHARS

\* The candidate company one connector yields:
\* " ".join(question_lower.split(phrase)[1].strip().split()[0:3])
CompanyAfter(question_lower, phrase) ==
    LET parts == SplitOn(question_lower, phrase)
    IN  IF Len(parts) > 1
        THEN Join(<<" ">>, Prefix(Split(Strip(parts[2])), 3))
        ELSE None

\* company_text after the auto-detection step: filters["company"] when it is
\* truthy, else the words after "of " (tried first) or "for ".
detect_company(question, filters) ==
    IF Truthy(filters.company) THEN filters.company
    ELSE LET question_lower == Lower(question)
         IN  IF StrIn(<<"o","f"," ">>, question_lower) THEN CompanyAfter(question_lower, <<"o","f"," ">>)
             ELSE IF StrIn(<<"f","o","r"," ">>, question_lower)
                  THEN CompanyAfter(question_lower, <<"f","o","r"," ">>)
             ELSE filters.company

\* The text that is embedded for the index query.
embedded_question(question, company_text) ==
    IF Truthy(company_text)
    THEN <<"[","c","o","m","p","a","n","y","=">> \o company_text \o <<"]"," ">> \o question
    ELSE question

Max(a, b) == IF a >= b THEN a ELSE b

\* The fetch size without over-fetching: as many candidates as results asked for.
query_top_k_no_overfetch(question, top_k) == top_k

\* query_top_k
query_top_k(question, top_k) ==
    IF is_full_jd_request(question) THEN Max(50, top_k * 8) ELSE Max(20, top_k * 4)

\* The set of the words of a string: set(s.split())
WordSet(s) == {Split(s)[i] : i \in 1..Len(Split(s))}

\* should_include for a chunk whose company metadata is not empty.  The source
\* assigns it twice: an if/elif for strategies 1 and 2, then a second
\* if/elif/else chain for strategies 3 to 6 whose every branch assigns it
\* again, so the value of the second chain is the one that is tested.
should_include(company_text, meta_company) ==
    LET company_lower == Strip(Lower(company_text))
        meta_lower == Strip(Lower(meta_company))
        first == IF company_lower = meta_lower THEN TRUE
                 ELSE IF StrIn(company_lower, meta_lower) \/ StrIn(meta_lower, company_lower)
                      THEN TRUE
                 ELSE FALSE  \* left unassigned here
        company_words == WordSet(company_lower)
        meta_words == WordSet(meta_lower)
        second == IF company_words \cap meta_words # {} THEN TRUE
                  ELSE IF \E word \in company_words : StrIn(word, meta_lower) THEN TRUE
                  ELSE IF RemoveSpaces(company_lower) = RemoveSpaces(meta_lower) THEN TRUE
                  ELSE IF \E word \in company_words : StrIn(Upper(word), Upper(meta_lower))
                       THEN TRUE
                  ELSE FALSE
    IN  second

\* The company filter with chunks that carry no company let through.
company_keeps_untagged(company_text, meta) ==
    IF Truthy(company_text)
    THEN LET meta_company == IF meta.company = None THEN <<>> ELSE meta.company
         IN  IF meta_company = <<>> THEN TRUE
             ELSE should_include(company_text, meta_company)
    ELSE TRUE

\* The company filter on one chunk: True when the loop goes on to the role
\* filter, False when it `continue`s.
company_keeps(company_text, meta) ==
    IF Truthy(company_text)
    THEN LET meta_company == IF meta.company = None THEN <<>> ELSE meta.company
         IN  IF meta_company = <<>> THEN FALSE
             ELSE should_include(company_text, meta_company)
    ELSE TRUE

\* role_contains letting a chunk without a role through.
role_contains_missing_role_passes(meta, pattern) ==
    IF ~Truthy(pattern) THEN TRUE
    ELSE IF meta.role = None THEN TRUE
    ELSE StrIn(Lower(pattern), Lower(meta.role))

\* utils.role_contains
role_contains(meta, pattern) ==
    IF ~Truthy(pattern) THEN TRUE
    ELSE LET role == IF meta.role = None THEN <<>> ELSE meta.role
         IN  StrIn(Lower(pattern), Lower(role))

\* full_text[:snippet_limit], full_text = chunk_text or preview or ""
snippet_text(meta, limit) ==
    LET field == IF meta.chunk_text > 0 THEN "chunk_text"
                 ELSE IF meta.preview > 0 THEN "preview" ELSE "empty"
        full == IF meta.chunk_text > 0 THEN meta.chunk_text ELSE meta.preview
    IN  [field |-> field, len |-> IF full < limit THEN full ELSE limit]

\* The passage built for a match that passed the filters.
passage(m, limit) ==
    [id |-> m.id, text |-> snippet_text(m.metadata, limit),
     metadata |-> m.metadata, score |-> m.score]

\* The year test of utils.filter_metadata, which retrieve_snippets imports
\* and does not call: year and int(meta.get("year") or 0) != int(year) rejects.
\* meta.year is int(meta.get("year") or 0); the year of the filters is None
\* or a string of digits (an int year behaves as its digits do).
filter_metadata_year(meta, year) ==
    IF Truthy(year) THEN meta.year = IntOf(year) ELSE TRUE

\* scored with the year test applied to every match.
scored_of_filtering_year(matches, company_text, filters, limit) ==
    LET kept == SelectSeq(matches, LAMBDA m :
                    /\ company_keeps(company_text, m.metadata)
                    /\ filter_metadata_year(m.metadata, filters.year)
                    /\ role_contains(m.metadata, filters.role_contains))
    IN  [i \in 1..Len(kept) |-> passage(kept[i], limit)]

\* scored after the loop over matches, in match order.
scored_of(matches, company_text, filters, limit) ==
    LET kept == SelectSeq(matches, LAMBDA m :
                    /\ company_keeps(company_text, m.metadata)
                    /\ role_contains(m.metadata, filters.role_contains))
    IN  [i \in 1..Len(kept) |-> passage(kept[i], limit)]

\* Where s[i] lands under list.sort(key=score, reverse=True): after every
\* element with a higher score and after the earlier elements with the same
\* score (the sort is stable).
SortedPosition(s, i) ==
    Cardinality({j \in 1..Len(s) : s[j].score > s[i].score})
    + Cardinality({j \in 1..i : s[j].score = s[i].score})

SortFrom(s) ==
    LET items == SubSeq(s, 1, Len(s))
        pos == SubSeq([i \in 1..Len(items) |-> SortedPosition(items, i)], 1, Len(items))
        at == [p \in 1..Len(items) |-> CHOOSE i \in 1..Len(items) : pos[i] = p]
    IN  SubSeq([p \in 1..Len(items) |-> items[at[p]]], 1, Len(items))

\* The sort with reverse=True left out: ascending by score.
sort_by_score_ascending(s) ==
    LET d == SortFrom(s) IN [i \in 1..Len(d) |-> d[Len(d) + 1 - i]]

\* scored.sort(key=lambda x: x["score"], reverse=True)
sort_by_score(s) == SortFrom(s)

\* s[:k] for any integer k (a negative k counts from the end)
SliceTo(s, k) ==
    IF k >= 0 THEN Prefix(s, k)
    ELSE Prefix(s, IF Len(s) + k > 0 THEN Len(s) + k ELSE 0)

\* The result slice with the full-document branch returning all of scored.
result_slice_uncapped(scored, question, top_k) ==
    IF is_full_jd_request(question) THEN scored ELSE SliceTo(scored, top_k)

\* The slice that is returned: scored[:min(len(scored), 50)] or scored[:top_k]
result_slice(scored, question, top_k) ==
    IF is_full_jd_request(question)
    THEN SliceTo(scored, IF Len(scored) < 50 THEN Len(scored) ELSE 50)
    ELSE SliceTo(scored, top_k)

\* index.query(vector, top_k=query_top_k): at most query_top_k of the
\* matches the index holds for the query.
index_query(index, k) == Prefix(index, k)

\* retrieve_snippets cutting the list to its cap before it is sorted.
retrieve_snippets_cut_before_sort(question, top_k, filters, index) ==
    LET company_text == detect_company(question, filters)
        limit == snippet_limit(question)
        matches == index_query(index, query_top_k(question, top_k))
        scored == scored_of(matches, company_text, filters, limit)
    IN  sort_by_score(result_slice(SubSeq(scored, 1, Len(scored)), question, top_k))

\* retrieve_snippets(question, top_k, filters) against the index.
retrieve_snippets(question, top_k, filters, index) ==
    LET company_text == detect_company(question, filters)
        limit == snippet_limit(question)
        matches == index_query(index, query_top_k(question, top_k))
        scored == sort_by_score(scored_of(matches, company_text, filters, limit))
    IN  result_slice(scored, question, top_k)


(***************************************************************************)
(* The vector index behind the retriever                                   *)
(***************************************************************************)

\* The index handed back when it is configured but the check was skipped.
get_pinecone_index_unchecked(s) == "index"

\* get_pinecone_index(): raises RuntimeError unless both the API key and the
\* index name are set; the value is the exception's name or "index".
get_pinecone_index(s) ==
    IF ~Truthy(s.PINECONE_API_KEY) \/ ~Truthy(s.PINECONE_INDEX_NAME)
    THEN "RuntimeError"
    ELSE "index"

(***************************************************************************)
(* The structured store as the query endpoint reads it                     *)
(***************************************************************************)

DigitChar(d) ==
    CASE d = 0 -> "0" [] d = 1 -> "1" [] d = 2 -> "2" [] d = 3 -> "3"
      [] d = 4 -> "4" [] d = 5 -> "5" [] d = 6 -> "6" [] d = 7 -> "7"
      [] d = 8 -> "8" [] d = 9 -> "9"

RECURSIVE PyStr(_)
\* str(n) of a natural number, as an f-string prints it
PyStr(n) ==
    IF n < 10 THEN <<DigitChar(n)>> ELSE PyStr(n \div 10) \o <<DigitChar(n % 10)>>

\* db.get_basic_stats(): the counts, or zeros when the read fails.
get_basic_stats(db) ==
    IF db.reads THEN [company_count |-> db.company_count]
    ELSE [company_count |-> 0]

\* db.get_companies(): the rows, or [] when the read fails.
get_companies(db) == IF db.reads THEN db.company_names ELSE <<>>

\* db.get_placement_stats(): the statistics, or {} when the read fails.
get_placement_stats(db) ==
    IF db.reads THEN db.placement_stats ELSE [k \in {} |-> <<>>]

\* stats.get(key, 'Not available') inside the f-string
StatText(stats, key) ==
    IF key \in DOMAIN stats THEN stats[key] ELSE <<"N","o","t"," ","a","v","a","i","l","a","b","l","e">>

\* The answer of the company count branch.
company_count_answer(db) ==
    LET company_count == get_basic_stats(db).company_count
        company_names == get_companies(db)
    IN  <<"B","a","s","e","d"," ","o","n"," ","t","h","e"," ","s","t","r","u","c","t","u","r","e","d"," ","p","l","a","c","e","m","e","n","t"," ","d","a","t","a","b","a","s","e",","," ","h","e","r","e"," ","a","r","e"," ","t","h","e"," ","c","u","r","r","e","n","t"," ","s","t","a","t","i","s","t","i","c","s",":","\n","\n","*","*","T","o","t","a","l"," ","C","o","m","p","a","n","i","e","s",":","*","*"," ">>
        \o PyStr(company_count)
        \o <<" ","c","o","m","p","a","n","i","e","s"," ","a","r","e"," ","a","c","t","i","v","e","l","y"," ","r","e","c","r","u","i","t","i","n","g","\n","*","*","C","o","m","p","a","n","i","e","s"," ","A","v","a","i","l","a","b","l","e",":","*","*"," ">>
        \o Join(<<","," ">>, company_names)
        \o <<"\n","\n","*","*","N","o","t","e",":","*","*"," ","T","h","i","s"," ","d","a","t","a"," ","i","s"," ","f","r","o","m"," ","o","u","r"," ","c","u","r","r","e","n","t"," ","p","l","a","c","e","m","e","n","t"," ","d","a","t","a","b","a","s","e","."," ","F","o","r"," ","h","i","s","t","o","r","i","c","a","l"," ","d","a","t","a"," ","o","r"," ","s","p","e","c","i","f","i","c"," ","y","e","a","r"," ","c","o","u","n","t","s",","," ","p","l","e","a","s","e"," ","c","o","n","t","a","c","t"," ","t","h","e"," ","p","l","a","c","e","m","e","n","t"," ","o","f","f","i","c","e",".">>

\* The answer of the salary branch.
salary_answer(db) ==
    LET stats == get_placement_stats(db)
    IN  <<"B","a","s","e","d"," ","o","n"," ","t","h","e"," ","s","t","r","u","c","t","u","r","e","d"," ","p","l","a","c","e","m","e","n","t"," ","d","a","t","a","b","a","s","e",":","\n","\n","*","*","S","a","l","a","r","y"," ","S","t","a","t","i","s","t","i","c","s",":","*","*","\n","-"," ","A","v","e","r","a","g","e"," ","M","i","n"," ","S","a","l","a","r","y",":"," ">>
        \o StatText(stats, "avg_min_salary")
        \o <<" ","L","P","A","\n","-"," ","A","v","e","r","a","g","e"," ","M","a","x"," ","S","a","l","a","r","y",":"," ">>
        \o StatText(stats, "avg_max_salary")
        \o <<" ","L","P","A","\n","-"," ","T","o","t","a","l"," ","R","o","l","e","s",":"," ">>
        \o StatText(stats, "role_count")
        \o <<"\n","\n","*","*","N","o","t","e",":","*","*"," ","S","a","l","a","r","y"," ","d","a","t","a"," ","i","s"," ","o","n","l","y"," ","a","v","a","i","l","a","b","l","e"," ","f","o","r"," ","r","o","l","e","s"," ","w","h","e","r","e"," ","i","t"," ","w","a","s"," ","e","x","p","l","i","c","i","t","l","y"," ","m","e","n","t","i","o","n","e","d",".">>

\* The company count test asking for both "how many" and "count".
asks_company_count_needs_both(question) ==
    LET q == Lower(question)
    IN  StrIn(<<"c","o","m","p","a","n","i","e","s">>, q) /\ StrIn(<<"h","o","w"," ","m","a","n","y">>, q) /\ StrIn(<<"c","o","u","n","t">>, q)

\* The company count test of the endpoint, on the question as supplied.
asks_company_count(question) ==
    LET q == Lower(question)
    IN  StrIn(<<"c","o","m","p","a","n","i","e","s">>, q) /\ (StrIn(<<"h","o","w"," ","m","a","n","y">>, q) \/ StrIn(<<"c","o","u","n","t">>, q))

\* The STRUCTURED branch of the endpoint: the answer it returns, or None when
\* it falls through to retrieval (opening the store raised, or the question
\* fits neither branch).
structured_answer(question, db) ==
    IF ~db.up THEN None
    ELSE IF asks_company_count(question) THEN company_count_answer(db)
    ELSE IF StrIn(<<"s","a","l","a","r","y">>, Lower(question)) THEN salary_answer(db)
    ELSE None

(***************************************************************************)
(* synthesize_answer: the generation backends                              *)
(***************************************************************************)

\* `requests` is imported unconditionally, so the flag is always set.
OPENROUTER_AVAILABLE == TRUE

\* The retry loop with one more pass.
OPENROUTER_ATTEMPTS_one_more == 2 + 1

\* for attempt in range(1, 3)
OPENROUTER_ATTEMPTS == 2

\* A choice list that is empty or missing.
NoChoices == <<"NoChoices">>

\* What one requests.post to OpenRouter can come to: a timeout, another
\* exception (transport error, a body that is not JSON), or a response with
\* a status; a 200 body carries no choice, or a choice with its `content`
\* and `text`.
Reply(kind, status, content, text) ==
    [kind |-> kind, status |-> status, content |-> content, text |-> text]

\* text = choice.get("message", {}).get("content") or choice.get("text")
choice_text(reply) ==
    IF reply.content # None /\ reply.content # <<>> THEN reply.content
    ELSE reply.text

EmptyResponseText ==
    <<"T","h","e"," ","m","o","d","e","l"," ","g","e","n","e","r","a","t","e","d"," ","a","n"," ","e","m","p","t","y"," ","r","e","s","p","o","n","s","e","."," ","P","l","e","a","s","e"," ","t","r","y"," ","r","e","p","h","r","a","s","i","n","g"," ","y","o","u","r"," ","q","u","e","s","t","i","o","n",".">>

OpenRouterFailedText == <<"O","p","e","n","R","o","u","t","e","r"," ","g","e","n","e","r","a","t","i","o","n"," ","f","a","i","l","e","d"," ","a","f","t","e","r"," ","r","e","t","r","i","e","s",".">>

\* One pass of the retry loop: whether synthesize_answer returns in it, and what.
openrouter_attempt(reply) ==
    IF reply.kind = "response" /\ reply.status = 200
    THEN IF reply.content # NoChoices /\ Truthy(choice_text(reply))
         THEN [returns |-> TRUE, value |-> Strip(choice_text(reply))]
         ELSE [returns |-> TRUE, value |-> EmptyResponseText]
    ELSE [returns |-> FALSE, value |-> None]

\* The Gemini block: the text of the response, the empty-response message,
\* or the message of the exception that configure / generate_content /
\* response.text raised.
gemini_call(reply) ==
    IF reply.kind = "exception" THEN <<"E","r","r","o","r"," ","c","a","l","l","i","n","g"," ","G","e","m","i","n","i",":"," ">> \o reply.text
    ELSE IF Truthy(reply.text) THEN Strip(reply.text)
    ELSE EmptyResponseText

\* The choice of the first backend with keys tested against None only, so
\* that an empty key counts as set.
first_backend_key_not_none(s) ==
    IF s.OPENROUTER_API_KEY # None /\ OPENROUTER_AVAILABLE THEN "TryingOpenRouter"
    ELSE IF s.GEMINI_API_KEY # None /\ s.GEMINI_AVAILABLE THEN "TryingGemini"
    ELSE "Returned"

\* The backend synthesize_answer turns to first: OpenRouter when its key is
\* set, else Gemini when its key is set and the package imported, else none.
first_backend(s) ==
    IF Truthy(s.OPENROUTER_API_KEY) /\ OPENROUTER_AVAILABLE THEN "TryingOpenRouter"
    ELSE IF Truthy(s.GEMINI_API_KEY) /\ s.GEMINI_AVAILABLE THEN "TryingGemini"
    ELSE "Returned"

(***************************************************************************)
(* _llm_classify_query: the generation-backed classifier                   *)
(***************************************************************************)

\* {"query": question, "fallback": reason}
Fallback(question, reason) ==
    [type |-> "hybrid",
     params |-> [k \in {"query", "fallback"} |->
                    IF k = "query" THEN question ELSE reason]]

\* An exception raised inside the try block.
LlmRaised == [type |-> "raise", params |-> <<>>]

\* The body of the try block: the classification, or LlmRaised when a
\* statement raises (the post itself, a body without choices, a content
\* that is None).
llm_classify_try(question, s, reply) ==
    IF ~Truthy(s.OPENROUTER_API_KEY) THEN Fallback(question, "no_api_key")
    ELSE IF reply.kind # "response" THEN LlmRaised
    ELSE IF reply.status = 200
    THEN IF reply.content = NoChoices \/ reply.content = None THEN LlmRaised
         ELSE LET content == Upper(Strip(reply.content))
              IN  IF StrIn(<<"S","Q","L">>, content)
                  THEN [type |-> "structured",
                        params |-> extract_structured_params(question)]
                  ELSE IF StrIn(<<"R","A","G">>, content)
                  THEN [type |-> "unstructured",
                        params |-> extract_unstructured_params(question)]
                  ELSE IF StrIn(<<"H","Y","B","R","I","D">>, content)
                  THEN [type |-> "hybrid",
                        params |-> extract_hybrid_params(question)]
                  ELSE Fallback(question, "unexpected_llm_response")
    ELSE Fallback(question, "llm_api_error")

\* The classifier with an unexpected label falling back to UNSTRUCTURED.
llm_classify_query_default_unstructured(question, s, reply) ==
    LET r == llm_classify_try(question, s, reply)
    IN  IF r.type = "raise" THEN Fallback(question, "llm_exception")
        ELSE IF "fallback" \in DOMAIN r.params
                /\ r.params["fallback"] = "unexpected_llm_response"
        THEN [type |-> "unstructured", params |-> r.params]
        ELSE r

\* _llm_classify_query(question): `except Exception` turns whatever the try
\* block raises into the HYBRID fallback.
llm_classify_query(question, s, reply) ==
    LET r == llm_classify_try(question, s, reply)
    IN  IF r.type = "raise" THEN Fallback(question, "llm_exception") ELSE r

(***************************************************************************)
(* EmbeddingBackend: the learned model and the hashing fallback            *)
(***************************************************************************)

\* The default self.dim (384 in the source), scaled down.
DefaultDim == 2

\* The length every text is repeated to, and the number of rows of the
\* projection matrix (1024 in the source), scaled down.
RepeatLength == 3

Letters == <<"a","b","c","d","e","f","g","h","i","j","k","l","m","n","o","p","q","r","s","t","u","v","w","x","y","z">>

Digits == <<"0","1","2","3","4","5","6","7","8","9">>

\* The code point of a character, for the characters of the texts embedded
\* and of the keys hashed.
Ord(c) ==
    IF \E i \in 1..Len(Letters) : Letters[i] = c
    THEN 96 + (CHOOSE i \in 1..Len(Letters) : Letters[i] = c)
    ELSE IF \E i \in 1..Len(Digits) : Digits[i] = c
    THEN 47 + (CHOOSE i \in 1..Len(Digits) : Digits[i] = c)
    ELSE CASE c = " " -> 32 [] c = "\n" -> 10 [] c = "." -> 46 [] c = "|" -> 124
           [] OTHER -> 63

\* t.encode("utf-8") viewed as uint8 values
utf8(t) == [i \in 1..Len(t) |-> Ord(t[i])]

\* np.resize(h, n): h repeated cyclically to length n
resize(h, n) == [i \in 1..n |-> h[((i - 1) % Len(h)) + 1]]

RECURSIVE SumFirst(_, _)
\* f[1] + ... + f[n]
SumFirst(f, n) == IF n = 0 THEN 0 ELSE SumFirst(f, n - 1) + f[n]

\* The generator seeded from the instance instead of the fixed seed.
rng_seed_from_model_name(self) == 42 + Len(self.model_name)

\* np.random.default_rng(42)
rng_seed(self) == 42

\* The n-th value a generator seeded with `seed` draws. The stream of numpy's
\* generator is a function of the seed alone; a small congruential stream
\* with values in -3..3 stands for it.
standard_normal(seed, n) == ((((seed + n) * 75 + 74) % 65537) % 7) - 3

\* rng.standard_normal((RepeatLength, dim)), filled row by row
projection_matrix(seed, dim) ==
    [r \in 1..RepeatLength |->
        [d \in 1..dim |-> standard_normal(seed, (r - 1) * dim + d)]]

\* One pass of the loop over texts: the bytes (a single 0 for an empty
\* text), repeated, projected and normalised. The normalised vector vec/norm
\* is kept as vec together with the squared norm it is divided by.
hashing_vector(t, projection, dim) ==
    LET h == IF Len(t) = 0 THEN <<0>> ELSE utf8(t)
        repeated == resize(h, RepeatLength)
        vec == [d \in 1..dim |->
                  SumFirst([r \in 1..RepeatLength |-> repeated[r] * projection[r][d]],
                           RepeatLength)]
        norm_sq == SumFirst([d \in 1..dim |-> vec[d] * vec[d]], dim)
    IN  [vec |-> vec, norm_sq |-> IF norm_sq > 0 THEN norm_sq ELSE 1]

\* _hashing_vectors(self, texts)
hashing_vectors(self, texts) ==
    LET projection == projection_matrix(rng_seed(self), self.dim)
    IN  [i \in 1..Len(texts) |-> hashing_vector(texts[i], projection, self.dim)]

\* self._model.encode(texts, normalize_embeddings=True): the learned model's
\* vectors, a function of the model and the text.
encode(self, texts) ==
    [i \in 1..Len(texts) |->
        [vec |-> [d \in 1..self.dim |-> Len(self.model_name) + Len(texts[i]) + d],
         norm_sq |-> 1]]

\* EmbeddingBackend(model_name): with the model loaded, dim is read off a
\* test encoding; when loading or the test encoding raises, there is no
\* model and dim stays at its default.
EmbeddingBackend(model_name, loads) ==
    IF loads
    THEN [model_name |-> model_name, model |-> "loaded", dim |-> DefaultDim + 1]
    ELSE [model_name |-> model_name, model |-> "None", dim |-> DefaultDim]

\* embed(self, texts): the model's vectors, or the hashing fallback when
\* there is no model or encode raises.
embed(self, texts, encode_raises) ==
    IF self.model # "None" /\ ~encode_raises THEN encode(self, texts)
    ELSE hashing_vectors(self, texts)
(***************************************************************************)
(* The state machine: one request (question, top_k, filters) against one   *)
(* vector index, one structured store and the generation backends the     *)
(* settings name.                                                          *)
(***************************************************************************)

VARIABLES
    question,    \* the question as supplied
    top_k,       \* the requested number of passages
    filters,     \* [company, year, role_contains], None where not supplied
    index,       \* the matches the vector index holds for the query, in its order
    route,       \* classify_query's result: [type, params] ("none" before the call)
    retrieved,   \* retrieve_snippets has been called
    snippets,    \* the list retrieve_snippets returned
    settings,    \* get_settings(): the keys and names, None where not set
    index_up,    \* index.query answers (it raises when FALSE)
    store,       \* the structured store: whether it opens and reads, and what it holds
    raised,      \* the exception that left the operation ("none": none did)
    calls,       \* the calls made to generation backends, in order, with their replies
    chain,       \* where synthesize_answer stands
    attempt,     \* the attempt number of the OpenRouter retry loop
    answer,      \* what synthesize_answer returned
    response,    \* the QueryResponse of the endpoint
    backends,    \* the EmbeddingBackend instances constructed so far
    embedded,    \* the embed calls made so far: instance, texts, vectors
    workers,     \* the requests the server is handling at once, each with its locals
    process,     \* what the requests share and may write: caches, module globals
    upserted,      \* the vectors of the index as ingestion wrote them: id -> metadata
    runs,        \* the process_file calls made so far, with what each reported
    high_paying, \* what the filter step of the multi-hop handler selected
    store_consulted  \* the endpoint turned to the structured store (PlacementDatabase())

vars == <<question, top_k, filters, index, route, retrieved, snippets,
          settings, index_up, store, raised, calls, chain, attempt, answer,
          response, backends, embedded, workers, process,
          upserted, runs, high_paying, store_consulted>>

\* The embedding instances and their calls.
embedding == <<backends, embedded>>

\* The requests served side by side and the state of the process they share.
serving == <<workers, process>>

\* What ingestion wrote and reported.
ingestion == <<upserted, runs>>

\* The structured side: the multi-hop handler's filter step, the endpoint's
\* use of the store.
analysis == <<high_paying, store_consulted>>

\* The multi-hop handler has not run.
NotFiltered == [done |-> FALSE]

\* The process before any request: get_settings not yet called (its cache is
\* empty), genai not configured, no result list allocated.
NoCache == [filled |-> FALSE, value |-> <<>>]

FreshProcess == [settings_cache |-> NoCache, genai_api_key |-> None, lists |-> <<>>]

\* The part of the state outside the request, its classification and retrieval.
rest == <<settings, index_up, store, raised, calls, chain, attempt, answer,
          response, embedding, serving, ingestion, analysis>>

\* Longest question, in vocabulary entries.
MaxWords == 3

\* Longest enumerated index response.
MaxMatches == 2

\* The questions made of at most n entries of a vocabulary, joined by spaces.
QuestionsOver(vocab, n) ==
    {Join(<<" ">>, ws) : ws \in UNION {[1..k -> vocab] : k \in 0..n}}

RouterVocab ==
    { <<"a","m","o","n","g">>, <<"m","e","d","i","a","n"," ","s","a","l","a","r","y">>, <<"s","k","i","l","l","s">>, <<"c","o","m","p","a","r","e">>, <<"c","o","m","p","a","n","i","e","s">>,
      <<"F","u","l","l"," ","J","D">>, <<"\n">>, <<"W","h","a","t">> }

RouterQuestions == QuestionsOver(RouterVocab, MaxWords)

NoFilters == [company |-> None, year |-> None, role_contains |-> None]

NotRouted == [type |-> "none", params |-> <<>>]

\* No exception has left the operation.
NoException == "none"

\* The endpoint has not answered.
NotResponded == [snippets |-> <<>>, answer |-> None, sent |-> FALSE]

\* Settings that name the vector index and no generation backend.
IndexOnly ==
    [PINECONE_API_KEY |-> <<"p","c","-","k","e","y">>, PINECONE_INDEX_NAME |-> <<"j","d","s">>,
     OPENROUTER_API_KEY |-> None, GEMINI_API_KEY |-> None,
     GEMINI_AVAILABLE |-> TRUE]

EmptyStore ==
    [up |-> TRUE, reads |-> TRUE, company_count |-> 0, company_names |-> <<>>,
     placement_stats |-> [k \in {} |-> <<>>]]

\* Nothing has been called, raised or answered yet.
Untouched ==
    /\ raised = NoException
    /\ calls = <<>>
    /\ chain = "NoBackendTried"
    /\ attempt = 0
    /\ answer = None
    /\ response = NotResponded
    /\ backends = <<>>
    /\ embedded = <<>>
    /\ workers = <<>>
    /\ process = FreshProcess
    /\ upserted = <<>>
    /\ runs = <<>>
    /\ high_paying = NotFiltered
    /\ store_consulted = FALSE

\* A reachable index, an empty store and no generation backend.
Serving ==
    /\ settings = IndexOnly
    /\ index_up = TRUE
    /\ store = EmptyStore
    /\ Untouched

\* A request to the classifier alone.
InitRouter ==
    /\ question \in RouterQuestions
    /\ top_k = 5
    /\ filters = NoFilters
    /\ index = <<>>
    /\ route = NotRouted
    /\ retrieved = FALSE
    /\ snippets = <<>>
    /\ Serving

\* router.classify_query(req.question)
Classify ==
    /\ route.type = "none"
    /\ route' = classify_query(question)
    /\ UNCHANGED <<question, top_k, filters, index, retrieved, snippets, rest>>

\* retrieve_snippets(req.question, req.top_k, filters): the configuration
\* error of get_pinecone_index and the error of index.query leave the
\* function as exceptions; otherwise the list is returned.
RetrieveSnippets ==
    /\ ~retrieved
    /\ retrieved' = TRUE
    /\ IF get_pinecone_index(settings) # "index"
       THEN raised' = get_pinecone_index(settings) /\ snippets' = snippets
       ELSE IF ~index_up
       THEN raised' = "PineconeException" /\ snippets' = snippets
       ELSE /\ raised' = raised
            /\ snippets' = retrieve_snippets(question, top_k, filters, index)
    /\ UNCHANGED <<question, top_k, filters, index, route, settings, index_up,
                   store, calls, chain, attempt, answer, response, embedding, serving, ingestion>>

\* A call of retrieve_snippets on its own.
Retrieve == RetrieveSnippets /\ UNCHANGED analysis

SpecRouter == InitRouter /\ [][Classify]_vars


(***************************************************************************)
(* The query endpoint after classification, and synthesize_answer          *)
(***************************************************************************)

\* The replies the OpenRouter endpoint can give to one post.
OpenRouterReplies ==
    { Reply("timeout", 0, None, None),
      Reply("exception", 0, None, None),
      Reply("response", 500, None, None),
      Reply("response", 200, NoChoices, None),
      Reply("response", 200, <<>>, None),
      Reply("response", 200, None, <<" ">>),
      Reply("response", 200, <<" ","A","c","m","e"," ","p","a","y","s"," ","6"," ","L","P","A","\n">>, None) }

\* The outcomes of the Gemini block: an exception with its message, or a
\* response with its text.
GeminiReplies ==
    { Reply("exception", 0, None, <<"q","u","o","t","a">>),
      Reply("response", 200, None, <<>>),
      Reply("response", 200, None, <<"A","c","m","e"," ","p","a","y","s"," ","6"," ","L","P","A"," ">>) }

\* The STRUCTURED branch answers: QueryResponse(snippets=[], answer=answer).
StructuredQuery ==
    /\ route.type = "structured"
    /\ ~retrieved
    /\ ~response.sent
    /\ structured_answer(question, store) # None
    /\ store_consulted' = TRUE
    /\ response' = [snippets |-> <<>>,
                    answer |-> structured_answer(question, store),
                    sent |-> TRUE]
    /\ UNCHANGED <<question, top_k, filters, index, route, retrieved, snippets,
                   settings, index_up, store, raised, calls, chain, attempt,
                   answer,
                   embedding, serving, ingestion, high_paying>>

\* The store is opened for every question, whatever its type.
opens_store_always(type) == TRUE

\* `if query_type == QueryType.STRUCTURED:` guards PlacementDatabase().
opens_store(type) == type = "structured"

\* The endpoint reaches retrieve_snippets: the question is classified and
\* the STRUCTURED branch, if it was entered, did not answer (opening the
\* store raised, or the question fits neither of its cases).
QueryRetrieve ==
    /\ route.type # "none"
    /\ ~response.sent
    /\ route.type = "structured" => structured_answer(question, store) = None
    /\ store_consulted' = (store_consulted \/ opens_store(route.type))
    /\ RetrieveSnippets
    /\ UNCHANGED high_paying

\* Entry of synthesize_answer(question, snippets, filters): the prompt is
\* built and the first configured backend is chosen; with none configured it
\* returns None.
SynthesizeAnswer ==
    /\ chain = "NoBackendTried"
    /\ chain' = first_backend(settings)
    /\ attempt' = IF first_backend(settings) = "TryingOpenRouter" THEN 1 ELSE attempt
    /\ answer' = None
    /\ UNCHANGED <<question, top_k, filters, index, route, retrieved, snippets,
                   settings, index_up, store, raised, calls, response,
                   embedding, serving, ingestion, analysis>>

\* The endpoint calling synthesize_answer whatever retrieve_snippets returned.
QuerySynthesize_unconditional ==
    /\ retrieved
    /\ raised = NoException
    /\ ~response.sent
    /\ SynthesizeAnswer

\* The endpoint calls synthesize_answer only with snippets.
QuerySynthesize ==
    /\ retrieved
    /\ raised = NoException
    /\ snippets # <<>>
    /\ ~response.sent
    /\ SynthesizeAnswer

\* One pass of the OpenRouter retry loop.
OpenRouterAttempt ==
    /\ chain = "TryingOpenRouter"
    /\ \E reply \in OpenRouterReplies :
         LET r == openrouter_attempt(reply)
         IN  /\ calls' = Append(calls, [backend |-> "openrouter", reply |-> reply])
             /\ IF r.returns
                THEN answer' = r.value /\ chain' = "Returned" /\ attempt' = attempt
                ELSE IF attempt < OPENROUTER_ATTEMPTS
                THEN answer' = answer /\ chain' = chain /\ attempt' = attempt + 1
                ELSE /\ answer' = OpenRouterFailedText
                     /\ chain' = "Returned"
                     /\ attempt' = attempt
    /\ UNCHANGED <<question, top_k, filters, index, route, retrieved, snippets,
                   settings, index_up, store, raised, response,
                   embedding, serving, ingestion, analysis>>

\* The Gemini block.
GeminiCall ==
    /\ chain = "TryingGemini"
    /\ \E reply \in GeminiReplies :
         /\ calls' = Append(calls, [backend |-> "gemini", reply |-> reply])
         /\ answer' = gemini_call(reply)
    /\ chain' = "Returned"
    /\ UNCHANGED <<question, top_k, filters, index, route, retrieved, snippets,
                   settings, index_up, store, raised, attempt, response,
                   embedding, serving, ingestion, analysis>>

\* The endpoint answering only once an answer was synthesized.
Respond_only_with_answer ==
    /\ retrieved
    /\ raised = NoException
    /\ ~response.sent
    /\ chain = "Returned"
    /\ answer # None
    /\ response' = [snippets |-> snippets, answer |-> answer, sent |-> TRUE]
    /\ UNCHANGED <<question, top_k, filters, index, route, retrieved, snippets,
                   settings, index_up, store, raised, calls, chain, attempt,
                   answer, embedding, serving, ingestion, analysis>>

\* answer = synthesize_answer(...) if snippets else None
\* return QueryResponse(snippets=snippets, answer=answer)
Respond ==
    /\ retrieved
    /\ raised = NoException
    /\ ~response.sent
    /\ snippets = <<>> \/ chain = "Returned"
    /\ response' = [snippets |-> snippets,
                    answer |-> IF snippets = <<>> THEN None ELSE answer,
                    sent |-> TRUE]
    /\ UNCHANGED <<question, top_k, filters, index, route, retrieved, snippets,
                   settings, index_up, store, raised, calls, chain, attempt,
                   answer,
                   embedding, serving, ingestion, analysis>>

\* What the classifier's post can come to.
ClassifierReplies ==
    { Reply("timeout", 0, None, None),
      Reply("exception", 0, None, None),
      Reply("response", 503, <<"S","Q","L">>, None),
      Reply("response", 200, NoChoices, None),
      Reply("response", 200, None, None),
      Reply("response", 200, <<>>, None),
      Reply("response", 200, <<"I"," ","c","a","n","n","o","t"," ","t","e","l","l">>, None),
      Reply("response", 200, <<" ","s","q","l","\n">>, None),
      Reply("response", 200, <<"R","a","g">>, None),
      Reply("response", 200, <<"H","Y","B","R","I","D">>, None),
      Reply("response", 200, <<"h","y","b","r","i","d",","," ","n","o","t"," ","S","Q","L">>, None) }

\* router._llm_classify_query(question): one post when a key is set, none
\* otherwise.
LlmClassify ==
    /\ route.type = "none"
    /\ IF Truthy(settings.OPENROUTER_API_KEY)
       THEN \E reply \in ClassifierReplies :
              /\ calls' = Append(calls, [backend |-> "classifier", reply |-> reply])
              /\ route' = llm_classify_query(question, settings, reply)
       ELSE /\ calls' = calls
            /\ route' = llm_classify_query(question, settings,
                                           Reply("none", 0, None, None))
    /\ UNCHANGED <<question, top_k, filters, index, retrieved, snippets,
                   settings, index_up, store, raised, chain, attempt, answer,
                   response,
                   embedding, serving, ingestion, analysis>>

(***************************************************************************)
(* Constructing EmbeddingBackend instances and calling embed               *)
(***************************************************************************)

\* Most instances constructed.
MaxBackends == 2

\* Most embed calls made.
MaxEmbeds == 3

ModelNames == { <<"m">>, <<"m","i","n","i">> }

\* The lists of texts embedded: one text, two texts one of them empty.
TextLists == { << <<"x">> >>, << <<"x","y">>, <<>> >> }

\* embedder = EmbeddingBackend(model_name)
Construct ==
    /\ Len(backends) < MaxBackends
    /\ \E model_name \in ModelNames, loads \in BOOLEAN :
         backends' = Append(backends, EmbeddingBackend(model_name, loads))
    /\ UNCHANGED <<question, top_k, filters, index, route, retrieved, snippets,
                   settings, index_up, store, raised, calls, chain, attempt,
                   answer, response, embedded, serving, ingestion, analysis>>

\* embedder.embed(texts) on one of the instances
Embed ==
    /\ Len(embedded) < MaxEmbeds
    /\ \E i \in 1..Len(backends), texts \in TextLists, encode_raises \in BOOLEAN :
         embedded' = Append(embedded,
                            [instance |-> i, texts |-> texts,
                             vectors |-> embed(backends[i], texts, encode_raises)])
    /\ UNCHANGED <<question, top_k, filters, index, route, retrieved, snippets,
                   settings, index_up, store, raised, calls, chain, attempt,
                   answer, response, backends, serving, ingestion, analysis>>

(***************************************************************************)
(* Several requests served at once (main.py, query): FastAPI runs the      *)
(* synchronous endpoint on worker threads.  Each request has its own       *)
(* locals; the steps below are cut where a request touches what the        *)
(* process shares: the get_settings cache, the index, the store, the       *)
(* module-level genai configuration.                                       *)
(***************************************************************************)

\* Most requests in flight.
MaxRequests == 2

\* get_settings() under lru_cache(maxsize=1): the cached Settings, or on the
\* first call the one loaded from the environment (which is then cached).
cached_settings(p, env) ==
    IF p.settings_cache.filled THEN p.settings_cache.value ELSE env

\* The cache once a call has filled it.
Cached(s) == [filled |-> TRUE, value |-> s]

\* The result list kept at module level and carried over from the last call.
new_scored_module_level(p) ==
    IF p.lists = <<>> THEN <<>> ELSE p.lists[Len(p.lists)]

\* scored = []: a list of the call's own.
new_scored(p) == <<>>

\* The body of retrieve_snippets in one request: the list it fills and
\* sorts, and the slice it returns.
worker_retrieve(req, p, matches_held) ==
    LET company_text == detect_company(req.question, req.filters)
        limit == snippet_limit(req.question)
        matches == index_query(matches_held, query_top_k(req.question, req.top_k))
        found == scored_of(matches, company_text, req.filters, limit)
        scored == sort_by_score(new_scored(p) \o SubSeq(found, 1, Len(found)))
    IN  [scored |-> scored,
         result |-> result_slice(scored, req.question, req.top_k)]

\* A request with the replies its own calls to the backends will get.
Request(q, k, f, openrouter, gemini) ==
    [question |-> q, top_k |-> k, filters |-> f,
     openrouter |-> openrouter, gemini |-> gemini]

\* The requests that arrive: retrieval with different caps, filters and
\* backend replies, and a company count.
RequestPool ==
    { Request(<<"W","h","a","t"," ","i","s"," ","t","h","e"," ","C","T","C","?">>, 2, NoFilters,
              << Reply("response", 500, None, None),
                 Reply("response", 200, <<" ","A","c","m","e"," ","p","a","y","s"," ","6"," ","L","P","A","\n">>, None) >>,
              Reply("response", 200, None, <<"S","i","x"," ","L","P","A"," ">>)),
      Request(<<"j","d"," ","f","o","r"," ","O","t","h","e","r">>, 1,
              [company |-> None, year |-> None, role_contains |-> <<"a","n","a","l","y","s","t">>],
              << Reply("timeout", 0, None, None), Reply("timeout", 0, None, None) >>,
              Reply("exception", 0, None, <<"q","u","o","t","a">>)),
      Request(<<"H","o","w"," ","m","a","n","y"," ","c","o","m","p","a","n","i","e","s"," ","a","r","e"," ","h","i","r","i","n","g","?">>, 1, NoFilters,
              << Reply("response", 200, <<"n","o","n","e">>, None),
                 Reply("response", 200, <<"n","o","n","e">>, None) >>,
              Reply("response", 200, None, <<"n","o","n","e">>)) }

\* The locals of a request that has just been received.
NewWorker(req) ==
    [question |-> req.question, top_k |-> req.top_k, filters |-> req.filters,
     openrouter |-> req.openrouter, gemini |-> req.gemini,
     at |-> "received", route |-> NotRouted, snippets |-> <<>>,
     raised |-> NoException, chain |-> "NoBackendTried", attempt |-> 0,
     answer |-> None, response |-> NotResponded]

\* A request arrives while others are being served.
Receive ==
    /\ Len(workers) < MaxRequests
    /\ \E req \in RequestPool : workers' = Append(workers, NewWorker(req))
    /\ UNCHANGED <<question, top_k, filters, index, route, retrieved, snippets,
                   settings, index_up, store, raised, calls, chain, attempt,
                   answer, response, embedding, process, ingestion, analysis>>

\* router = QueryRouter(); router.classify_query(req.question)
WorkerClassify ==
    /\ \E w \in 1..Len(workers) :
         /\ workers[w].at = "received"
         /\ workers' = [workers EXCEPT ![w].route = classify_query(workers[w].question),
                                       ![w].at = "classified"]
    /\ UNCHANGED <<question, top_k, filters, index, route, retrieved, snippets,
                   settings, index_up, store, raised, calls, chain, attempt,
                   answer, response, embedding, process, ingestion, analysis>>

\* The STRUCTURED branch answers from the store.
WorkerStructured ==
    /\ \E w \in 1..Len(workers) :
         /\ workers[w].at = "classified"
         /\ workers[w].route.type = "structured"
         /\ structured_answer(workers[w].question, store) # None
         /\ workers' = [workers EXCEPT
                ![w].response = [snippets |-> <<>>,
                                 answer |-> structured_answer(workers[w].question, store),
                                 sent |-> TRUE],
                ![w].at = "responded"]
    /\ UNCHANGED <<question, top_k, filters, index, route, retrieved, snippets,
                   settings, index_up, store, raised, calls, chain, attempt,
                   answer, response, embedding, process, ingestion, analysis>>

\* retrieve_snippets in one request: get_settings (filling the cache on the
\* first call), the index handle, the query, the list of the call.
WorkerRetrieve ==
    /\ \E w \in 1..Len(workers) :
         LET me == workers[w]
             s == cached_settings(process, settings)
             r == worker_retrieve(me, process, index)
         IN  /\ me.at = "classified"
             /\ me.route.type = "structured" => structured_answer(me.question, store) = None
             /\ IF get_pinecone_index(s) # "index"
                THEN /\ workers' = [workers EXCEPT ![w].raised = get_pinecone_index(s),
                                                   ![w].at = "failed"]
                     /\ process' = [process EXCEPT !.settings_cache = Cached(s)]
                ELSE IF ~index_up
                THEN /\ workers' = [workers EXCEPT ![w].raised = "PineconeException",
                                                   ![w].at = "failed"]
                     /\ process' = [process EXCEPT !.settings_cache = Cached(s)]
                ELSE /\ workers' = [workers EXCEPT ![w].snippets = r.result,
                                                   ![w].at = "retrieved"]
                     /\ process' = [process EXCEPT !.settings_cache = Cached(s),
                                                   !.lists = Append(@, r.scored)]
    /\ UNCHANGED <<question, top_k, filters, index, route, retrieved, snippets,
                   settings, index_up, store, raised, calls, chain, attempt,
                   answer, response, embedding, ingestion, analysis>>

\* Entry of synthesize_answer in one request (called only with snippets).
WorkerSynthesize ==
    /\ \E w \in 1..Len(workers) :
         LET s == cached_settings(process, settings)
         IN  /\ workers[w].at = "retrieved"
             /\ workers[w].snippets # <<>>
             /\ workers' = [workers EXCEPT
                    ![w].chain = first_backend(s),
                    ![w].attempt = IF first_backend(s) = "TryingOpenRouter" THEN 1 ELSE @,
                    ![w].at = "synthesizing"]
             /\ process' = [process EXCEPT !.settings_cache = Cached(s)]
    /\ UNCHANGED <<question, top_k, filters, index, route, retrieved, snippets,
                   settings, index_up, store, raised, calls, chain, attempt,
                   answer, response, embedding, ingestion, analysis>>

\* One pass of the retry loop in one request, on the request's own post.
WorkerOpenRouter ==
    /\ \E w \in 1..Len(workers) :
         LET me == workers[w]
             r == openrouter_attempt(me.openrouter[me.attempt])
         IN  /\ me.at = "synthesizing"
             /\ me.chain = "TryingOpenRouter"
             /\ workers' = [workers EXCEPT ![w] =
                    IF r.returns
                    THEN [me EXCEPT !.answer = r.value, !.chain = "Returned"]
                    ELSE IF me.attempt < OPENROUTER_ATTEMPTS
                    THEN [me EXCEPT !.attempt = @ + 1]
                    ELSE [me EXCEPT !.answer = OpenRouterFailedText,
                                    !.chain = "Returned"]]
    /\ UNCHANGED <<question, top_k, filters, index, route, retrieved, snippets,
                   settings, index_up, store, raised, calls, chain, attempt,
                   answer, response, embedding, process, ingestion, analysis>>

\* genai.configure(api_key=settings.GEMINI_API_KEY): a write to the module's
\* configuration, which every request shares.
WorkerGeminiConfigure ==
    /\ \E w \in 1..Len(workers) :
         /\ workers[w].at = "synthesizing"
         /\ workers[w].chain = "TryingGemini"
         /\ workers' = [workers EXCEPT ![w].chain = "GeminiConfigured"]
         /\ process' = [process EXCEPT
                !.genai_api_key = cached_settings(process, settings).GEMINI_API_KEY]
    /\ UNCHANGED <<question, top_k, filters, index, route, retrieved, snippets,
                   settings, index_up, store, raised, calls, chain, attempt,
                   answer, response, embedding, ingestion, analysis>>

\* model.generate_content(...) under the key that is configured at the time
\* of the call: the request's reply, or an error when the key is not the one
\* the request configured.
WorkerGeminiGenerate ==
    /\ \E w \in 1..Len(workers) :
         LET me == workers[w]
             reply == IF process.genai_api_key
                           = cached_settings(process, settings).GEMINI_API_KEY
                      THEN me.gemini
                      ELSE Reply("exception", 0, None, <<"A","P","I"," ","k","e","y"," ","n","o","t"," ","v","a","l","i","d">>)
         IN  /\ me.at = "synthesizing"
             /\ me.chain = "GeminiConfigured"
             /\ workers' = [workers EXCEPT ![w].answer = gemini_call(reply),
                                           ![w].chain = "Returned"]
    /\ UNCHANGED <<question, top_k, filters, index, route, retrieved, snippets,
                   settings, index_up, store, raised, calls, chain, attempt,
                   answer, response, embedding, process, ingestion, analysis>>

\* answer = synthesize_answer(...) if snippets else None
\* return QueryResponse(snippets=snippets, answer=answer)
WorkerRespond ==
    /\ \E w \in 1..Len(workers) :
         LET me == workers[w]
         IN  /\ \/ me.at = "retrieved" /\ me.snippets = <<>>
                \/ me.at = "synthesizing" /\ me.chain = "Returned"
             /\ workers' = [workers EXCEPT
                    ![w].response = [snippets |-> me.snippets,
                                     answer |-> IF me.snippets = <<>> THEN None
                                                ELSE me.answer,
                                     sent |-> TRUE],
                    ![w].at = "responded"]
    /\ UNCHANGED <<question, top_k, filters, index, route, retrieved, snippets,
                   settings, index_up, store, raised, calls, chain, attempt,
                   answer, response, embedding, process, ingestion, analysis>>
(***************************************************************************)
(* Requests and index contents for the retriever.                          *)
(***************************************************************************)

\* A match of the index: id, score (hundredths), and the metadata fields read.
Match(id, score, company, role, chunk_text, preview) ==
    [id |-> id, score |-> score,
     metadata |-> [company |-> company, role |-> role,
                   chunk_text |-> chunk_text, preview |-> preview]]

\* Chunks of the index: two companies, a chunk with no company key and one with
\* an empty company, texts around both character limits, equal scores.
ChunkPool ==
    { Match(1, 90, <<"A","c","m","e"," ","C","o","r","p">>, <<"D","a","t","a"," ","A","n","a","l","y","s","t">>, 10001, 0),
      Match(2, 50, <<"A","c","m","e"," ","C","o","r","p">>, <<"E","n","g","i","n","e","e","r">>, 401, 0),
      Match(3, 90, <<"O","t","h","e","r"," ","I","n","c">>, <<"A","n","a","l","y","s","t">>, 400, 10001),
      Match(4, 50, None, None, 0, 401),
      Match(5, 10, <<"T","A","P"," ","A","C","A","D","E","M","Y"," ","P","V","T"," ","L","T","D">>, <<"T","r","a","i","n","e","r">>, 399, 0),
      Match(6, 70, <<>>, <<"A","n","a","l","y","s","t">>, 0, 0) }

\* The index responses of at most n distinct chunks of the pool, in any order.
ShortIndexes(n) ==
    {s \in UNION {[1..k -> ChunkPool] : k \in 0..n} :
        \A i, j \in 1..Len(s) : i # j => s[i] # s[j]}

\* A long index response: n chunks, two in three of Acme Corp, with scores
\* that repeat and are not in order.
LongIndex(n, stride) ==
    [i \in 1..n |->
        Match(100 + i, ((i * stride) % 5) * 20,
              IF i % 3 = 0 THEN <<"O","t","h","e","r"," ","I","n","c">> ELSE <<"A","c","m","e"," ","C","o","r","p">>,
              <<"A","n","a","l","y","s","t">>, 401, 0)]

LongIndexes == {LongIndex(n, stride) : n \in {3, 56, 80}, stride \in {1, 2}}

RetrievalQuestions ==
    { <<"W","h","a","t"," ","i","s"," ","t","h","e"," ","C","T","C","?">>, <<"f","u","l","l"," ","j","d"," ","o","f"," ","A","c","m","e"," ","C","o","r","p">>, <<"j","d"," ","f","o","r"," ","T","a","p"," ","a","c","a","d","e","m","y">>,
      <<"F","u","l","l"," ","J","D">>, <<"s","k","i","l","l","s"," ","o","f">> }

\* Filters and short responses: every question, supplied and auto-detected
\* companies, a role filter.
InitFilters ==
    /\ question \in RetrievalQuestions
    /\ top_k \in {1, 2}
    /\ filters \in [company : {None, <<>>, <<"A","c","m","e"," ","C","o","r","p">>, <<"T","A","P"," ","A","c","a","d","e","m","y">>},
                    year : {None},
                    role_contains : {None, <<"a","n","a","l","y","s","t">>}]
    /\ index \in ShortIndexes(MaxMatches)

\* Any top_k against long responses, in ordinary and full-document mode.
InitCap ==
    /\ question \in {<<"W","h","a","t"," ","i","s"," ","t","h","e"," ","C","T","C","?">>, <<"F","u","l","l"," ","J","D">>}
    /\ top_k \in {-1, 0, 1, 3, 7, 60}
    /\ filters \in [company : {None, <<"A","c","m","e"," ","C","o","r","p">>}, year : {None},
                    role_contains : {None}]
    /\ index \in LongIndexes

InitRetrieve ==
    /\ InitFilters \/ InitCap
    /\ route = NotRouted
    /\ retrieved = FALSE
    /\ snippets = <<>>
    /\ Serving

SpecRetrieve == InitRetrieve /\ [][Retrieve]_vars

\* Company names supplied in filters.company.
CandidateNames ==
    { <<"T","A","P"," ","A","c","a","d","e","m","y">>, <<"T","a","p"," ","A","c","a","d","e","m","y">>, <<"A","c","m","e">>, <<"a","c","m","e"," ","c","o","r","p">>, <<"A","m","a","z","o","n",".","c","o","m">>,
      <<"M","i","c","r","o","s","o","f","t">>, <<"c","a","d">>, <<"T","a","p","A","c","a","d","e","m","y">>, <<"Z","e","t","a"," "," ","L","a","b","s">> }

\* The names, and a company of white space only (truthy, empty once trimmed).
CandidatePool == CandidateNames \cup { <<" ">> }

\* Company metadata of a chunk (None: no company key).
MetaCompanyNames ==
    { <<"t","a","p"," ","a","c","a","d","e","m","y">>, <<"T","A","P"," ","A","C","A","D","E","M","Y"," ","P","V","T"," ","L","T","D">>, <<"A","c","m","e"," ","C","o","r","p">>, <<"A","m","a","z","o","n">>, <<"M","i","c","r","o">>,
      <<"O","t","h","e","r"," ","I","n","c">>, <<"T","a","p"," "," ","A","c","a","d","e","m","y">>, <<>>, None }

MetaCompanyPool == MetaCompanyNames \cup { <<" ">> }

\* One chunk against one supplied company; the question names no company.
InitMatchOver(candidates, metas) ==
    /\ question = <<"W","h","a","t"," ","i","s"," ","t","h","e"," ","C","T","C","?">>
    /\ top_k = 1
    /\ filters \in [company : candidates, year : {None}, role_contains : {None}]
    /\ index \in {<<Match(1, 90, c, <<"A","n","a","l","y","s","t">>, 401, 0)>> : c \in metas}
    /\ route = NotRouted
    /\ retrieved = FALSE
    /\ snippets = <<>>
    /\ Serving

InitMatch == InitMatchOver(CandidatePool, MetaCompanyPool)

SpecMatch == InitMatch /\ [][Retrieve]_vars

\* The same with company names only.
InitMatchNames == InitMatchOver(CandidateNames, MetaCompanyNames)

SpecMatchNames == InitMatchNames /\ [][Retrieve]_vars

\* Questions for the company auto-detection: no connector, a connector with
\* nothing after it, one connector, more than three words after it, a
\* connector inside a word, and both connectors or the same one twice.
DetectQuestions ==
    { <<"W","h","a","t"," ","i","s"," ","t","h","e"," ","C","T","C","?">>, <<"s","k","i","l","l","s"," ","o","f"," ">>, <<"j","d"," ","f","o","r"," ","T","a","p"," ","a","c","a","d","e","m","y">>,
      <<"f","u","l","l"," ","j","d"," ","o","f"," ","A","c","m","e"," ","C","o","r","p"," ","p","u","n","e"," ","o","f","f","i","c","e">>, <<"p","r","o","o","f"," ","f","o","r"," ","A","c","m","e">>,
      <<"f","u","l","l"," ","j","d"," ","o","f"," ","B","a","n","k"," ","o","f"," ","I","n","d","i","a">>, <<"j","d"," ","f","o","r"," ","B","a","n","k"," ","o","f"," ","I","n","d","i","a">>, <<"S","k","i","l","l","s"," ","O","F"," "," ","A","c","m","e">> }

DetectIndex ==
    << Match(1, 90, <<"A","c","m","e"," ","C","o","r","p">>, <<"E","n","g","i","n","e","e","r">>, 100, 0),
       Match(2, 80, <<"B","a","n","k"," ","o","f"," ","I","n","d","i","a">>, <<"O","f","f","i","c","e","r">>, 100, 0),
       Match(3, 70, <<"I","n","d","i","a"," ","P","o","s","t">>, <<"C","l","e","r","k">>, 100, 0),
       Match(4, 60, <<"T","A","P"," ","A","C","A","D","E","M","Y"," ","P","V","T"," ","L","T","D">>, <<"T","r","a","i","n","e","r">>, 100, 0) >>

\* Auto-detection against a fixed index, with and without a supplied company.
InitDetect ==
    /\ question \in DetectQuestions
    /\ top_k \in {1, 3}
    /\ filters \in [company : {None, <<>>, <<"I","n","d","i","a"," ","P","o","s","t">>}, year : {None},
                    role_contains : {None}]
    /\ index \in {DetectIndex, SubSeq(DetectIndex, 2, 4)}
    /\ route = NotRouted
    /\ retrieved = FALSE
    /\ snippets = <<>>
    /\ Serving

SpecDetect == InitDetect /\ [][Retrieve]_vars

\* Questions for the structured extraction: a stem that a structured
\* pattern matches, followed by further cues: entities, metrics in an order
\* other than their priority, numbers of two, four and five digits,
\* specialization keywords alone, in pairs and inside other words.
StructuredStems ==
    { <<"h","o","w"," ","m","a","n","y"," ","c","o","m","p","a","n","i","e","s">>, <<"c","o","u","n","t"," ","c","o","m","p","a","n","i","e","s">>, <<"m","e","d","i","a","n"," ","s","a","l","a","r","y">>, <<"a","v","e","r","a","g","e"," ","s","a","l","a","r","y">>,
      <<"s","a","l","a","r","y"," ","r","a","n","g","e">>, <<"h","i","g","h","e","s","t"," ","s","a","l","a","r","y">>, <<"l","o","w","e","s","t"," ","s","a","l","a","r","y">>, <<"n","u","m","b","e","r"," ","o","f"," ","r","o","l","e","s">>,
      <<"r","o","l","e"," ","c","o","u","n","t">>, <<"p","l","a","c","e","m","e","n","t"," ","d","a","t","a">> }

StructuredCues ==
    { <<>>, <<"o","f","f","e","r","s">>, <<"r","o","l","e","s"," ","o","f","f","e","r","s">>, <<"s","a","l","a","r","y">>, <<"m","a","x"," ","a","v","g">>, <<"m","i","n"," ","r","a","n","g","e">>, <<"l","o","w","e","s","t"," ","m","e","d","i","a","n">>,
      <<"2","0","2","4">>, <<"1","2","3","4","5"," ","1","9">>, <<"i","n"," ","9","9">>, <<"m","a","r","k","e","t","i","n","g">>, <<"I","T"," ","F","i","n","a","n","c","e">>, <<"h","u","m","a","n"," ","r","e","s","o","u","r","c","e","s">>,
      <<"w","i","t","h">>, <<"h","o","w"," ","m","a","n","y">> }

StructuredQuestions ==
    {Join(<<" ">>, SelectSeq(<<stem, cue>>, LAMBDA w : w # <<>>)) :
        stem \in StructuredStems, cue \in StructuredCues}

InitStructured ==
    /\ question \in StructuredQuestions
    /\ top_k = 5
    /\ filters = NoFilters
    /\ index = <<>>
    /\ route = NotRouted
    /\ retrieved = FALSE
    /\ snippets = <<>>
    /\ Serving

SpecStructured == InitStructured /\ [][Classify]_vars

\* A match whose metadata carries a year (0: no year).
MatchOfYear(id, score, company, role, year) ==
    [id |-> id, score |-> score,
     metadata |-> [company |-> company, role |-> role, year |-> year,
                   chunk_text |-> 100, preview |-> 0]]

\* Chunks of two years and one without a year.
YearIndex ==
    << MatchOfYear(1, 90, <<"A","c","m","e"," ","C","o","r","p">>, <<"A","n","a","l","y","s","t">>, 2023),
       MatchOfYear(2, 80, <<"A","c","m","e"," ","C","o","r","p">>, <<"E","n","g","i","n","e","e","r">>, 2024),
       MatchOfYear(3, 70, <<"O","t","h","e","r"," ","I","n","c">>, <<"A","n","a","l","y","s","t">>, 2024),
       MatchOfYear(4, 60, <<"A","c","m","e"," ","C","o","r","p">>, <<"T","r","a","i","n","e","r">>, 0) >>

\* filters.year: absent, the empty string a form may send, two years.
YearValues == {None, <<>>, <<"2","0","2","3">>, <<"2","0","2","4">>}

\* Requests that differ in the year, against the same index.
InitYear ==
    /\ question \in {<<"W","h","a","t"," ","i","s"," ","t","h","e"," ","C","T","C","?">>, <<"F","u","l","l"," ","J","D">>, <<"j","d"," ","f","o","r"," ","A","c","m","e">>}
    /\ top_k \in {1, 3}
    /\ filters \in [company : {None, <<"A","c","m","e"," ","C","o","r","p">>}, year : YearValues,
                    role_contains : {None, <<"a","n","a","l","y","s","t">>}]
    /\ index \in {YearIndex, SubSeq(YearIndex, 2, 4)}
    /\ route = NotRouted
    /\ retrieved = FALSE
    /\ snippets = <<>>
    /\ Serving

SpecYear == InitYear /\ [][Retrieve]_vars

(***************************************************************************)
(* Ingestion (ingest/ingest_docling.py, ingest/chunking.py): a text file   *)
(* is parsed into one section, chunked, and its chunks are upserted into   *)
(* the index under ids computed by stable_chunk_id.                        *)
(***************************************************************************)

\* CHUNK_SIZE (700 in the settings), scaled down: the token count above
\* which a section is split, and the size of the parts in characters.
ChunkSize == 6

\* Most process_file calls.
MaxRuns == 3

RECURSIVE DigestFrom(_, _, _)
\* A digest of the code points of text[i..], continuing from h.
DigestFrom(text, i, h) ==
    IF i > Len(text) THEN h
    ELSE DigestFrom(text, i + 1, (h * 31 + Ord(text[i])) % 65521)

\* hashlib.sha1(text.encode("utf-8")).hexdigest()[:20]: a digest of the
\* bytes of the text; a small polynomial digest stands for SHA-1.
sha1_20(text) == DigestFrom(text, 1, 7)

\* utils.stable_chunk_id
stable_chunk_id(source_file, section_id, chunk_idx, start_char, end_char) ==
    sha1_20(source_file \o <<"|">> \o section_id \o <<"|">> \o PyStr(chunk_idx)
            \o <<"|">> \o PyStr(start_char) \o <<"|">> \o PyStr(end_char))

\* utils.count_tokens without tiktoken: max(1, int(words / 1.3))
count_tokens(text) == Max(1, (Len(Split(text)) * 10) \div 13)

RECURSIVE PackWords(_, _, _)
\* The words packed in order into parts of at most `size` characters; a
\* word longer than that is a part of its own.
PackWords(words, current, size) ==
    IF words = <<>> THEN (IF current = <<>> THEN <<>> ELSE <<current>>)
    ELSE LET joined == IF current = <<>> THEN Head(words)
                       ELSE current \o <<" ">> \o Head(words)
         IN  IF current = <<>> \/ Len(joined) <= size
             THEN PackWords(Tail(words), joined, size)
             ELSE <<current>> \o PackWords(words, <<>>, size)

\* splitter.split_text(text): the splitter is langchain's
\* RecursiveCharacterTextSplitter; packing words up to chunk_size
\* characters stands for it.
split_text(text, chunk_size) == PackWords(Split(text), <<>>, chunk_size)

\* parse_pdf_or_text on a .txt file: the whole text as section "0"; the
\* caller gets "RuntimeError" for a text that is empty once stripped.
parse_text(text) ==
    IF Strip(text) = <<>> THEN "RuntimeError"
    ELSE << [id |-> <<"0">>, type |-> "text", text |-> text,
             char_start |-> 0, char_end |-> Len(text)] >>

\* The chunks of one section: the section itself when it is a table, names
\* a salary or is short, else one chunk per part of the splitter.
chunk_section(sec, chunk_size) ==
    LET whole == << [id |-> sec.id, char_start |-> sec.char_start,
                     char_end |-> sec.char_end, chunk_idx |-> 0,
                     chunk_text |-> sec.text] >>
        parts == split_text(sec.text, chunk_size)
    IN  IF sec.type = "table" \/ StrIn(<<"s","a","l","a","r","y">>, Lower(sec.text)) THEN whole
        ELSE IF count_tokens(sec.text) <= chunk_size THEN whole
        ELSE [idx \in 1..Len(parts) |->
                 [id |-> sec.id, char_start |-> sec.char_start,
                  char_end |-> sec.char_end, chunk_idx |-> idx - 1,
                  chunk_text |-> parts[idx]]]

RECURSIVE hybrid_chunk_sections(_, _)
\* chunking.hybrid_chunk_sections
hybrid_chunk_sections(sections, chunk_size) ==
    IF sections = <<>> THEN <<>>
    ELSE SubSeq(chunk_section(Head(sections), chunk_size), 1,
                Len(chunk_section(Head(sections), chunk_size)))
         \o hybrid_chunk_sections(Tail(sections), chunk_size)

\* The id of a chunk taken from what the extraction found in the file.
chunk_id_by_extraction(source_file, c, langext) ==
    stable_chunk_id(source_file, langext.company, c.chunk_idx,
                    c.char_start, c.char_end)

\* c["_id"] in process_file
chunk_id(source_file, c, langext) ==
    stable_chunk_id(source_file, c.id, c.chunk_idx, c.char_start, c.char_end)

\* The chunks process_file hands to upsert_chunks_pinecone, with the
\* metadata the extraction added to every section.
file_chunks(file, langext) ==
    LET chunks == hybrid_chunk_sections(parse_text(file.text), ChunkSize)
    IN  [i \in 1..Len(chunks) |->
            [id |-> chunk_id(file.name, chunks[i], langext),
             metadata |-> [source_file |-> file.name,
                           chunk_idx |-> chunks[i].chunk_idx,
                           company |-> langext.company]]]

\* index.upsert(vectors): a vector replaces the one stored under its id.
upsert(held, chunks) ==
    LET ids == {chunks[i].id : i \in 1..Len(chunks)}
    IN  [id \in DOMAIN held \cup ids |->
            IF id \in ids
            THEN (CHOOSE m \in {chunks[i] : i \in 1..Len(chunks)} : m.id = id).metadata
            ELSE held[id]]

\* A file of the ingested directory.
File(name, text) == [name |-> name, text |-> text]

\* Files: a word, a text long enough to be split, white space only, a long
\* text that names a salary.
IngestFiles ==
    { File(<<"a",".","t","x","t">>, <<"x">>),
      File(<<"b",".","t","x","t">>, <<"a"," ","b"," ","c"," ","d"," ","e"," ","f"," ","g"," ","h"," ","i"," ","j"," ","k"," ","l">>),
      File(<<"c",".","t","x","t">>, <<" ","\n">>),
      File(<<"d",".","t","x","t">>, <<"s","a","l","a","r","y"," ","a"," ","b"," ","c"," ","d"," ","e"," ","f"," ","g"," ","h"," ","i"," ","j">>) }

\* What run_extraction finds: it asks a model first, so two runs on the same
\* text need not agree.
Extractions == { [company |-> <<"a","c","m","e">>], [company |-> <<"o","t","h","e","r">>] }

\* A RuntimeError left process_file.
Failed(file, before) ==
    [file |-> file, raised |-> "RuntimeError", n |-> 0, ids |-> {},
     before |-> before, after |-> before]

\* process_file(path) on a .txt file.
ProcessFile ==
    /\ Len(runs) < MaxRuns
    /\ \E file \in IngestFiles, langext \in Extractions :
         LET before == DOMAIN upserted
         IN  IF parse_text(file.text) = "RuntimeError"
                \/ ~Truthy(settings.PINECONE_API_KEY)
                \/ ~Truthy(settings.PINECONE_INDEX_NAME)
             THEN /\ runs' = Append(runs, Failed(file, before))
                  /\ upserted' = upserted
             ELSE LET chunks == file_chunks(file, langext)
                      held == upsert(upserted, chunks)
                  IN  /\ upserted' = held
                      /\ runs' = Append(runs,
                            [file |-> file, raised |-> NoException,
                             n |-> Len(chunks),
                             ids |-> {chunks[i].id : i \in 1..Len(chunks)},
                             before |-> before, after |-> DOMAIN held])
    /\ UNCHANGED <<question, top_k, filters, index, route, retrieved, snippets,
                   settings, index_up, store, raised, calls, chain, attempt,
                   answer, response, embedding, serving, analysis>>

(***************************************************************************)
(* The multi-hop handler (app/rag.py, _handle_multi_hop_query): a filter   *)
(* step over the rows of the structured store, then the retrieval answer.  *)
(* A row of search_skills is [company_name, salary_max_lpa], the salary in *)
(* whole LPA as <<n>>, or <<>> for NULL (the column is nullable).  A threshold is the float   *)
(* the router parsed: [whole, frac].                                       *)
(***************************************************************************)

\* db.search_skills("", None): the rows, ordered by salary_max_lpa
\* descending; [] when the query fails.
search_skills(db) == IF db.reads THEN db.skills ELSE <<>>

\* bool(x) of a float
TruthyFloat(x) == x.whole # 0 \/ x.frac # <<>>

\* salary > threshold, the salary a whole number
Exceeds(salary, threshold) == salary > threshold.whole

\* salary < threshold, the salary a whole number
Below(salary, threshold) ==
    salary < threshold.whole \/ (salary = threshold.whole /\ threshold.frac # <<>>)

\* [c["company_name"] for c in rows]
CompanyNames(rows) == [i \in 1..Len(rows) |-> rows[i].company_name]

\* What the handler returns without a filter result.
Rephrase ==
    [done |-> TRUE, outcome |-> "rephrase", operator |-> "", companies |-> <<>>]

\* The filter step of _handle_multi_hop_query: the operator it reports and
\* the companies it lists (the first five of high_paying).  Comparing a None
\* salary raises, which the handler's except turns into its error text.
multi_hop_filter(params, db) ==
    IF "salary_threshold" \in DOMAIN params /\ TruthyFloat(params.salary_threshold)
    THEN LET threshold == params.salary_threshold
             operator == IF "salary_operator" \in DOMAIN params
                         THEN params.salary_operator ELSE ">"
             filtered_companies == search_skills(db)
         IN  IF \E i \in 1..Len(filtered_companies) :
                    filtered_companies[i].salary_max_lpa = <<>>
             THEN [done |-> TRUE, outcome |-> "error", operator |-> operator,
                   companies |-> <<>>]
             ELSE LET selected == SelectSeq(filtered_companies, LAMBDA c :
                                      Exceeds(c.salary_max_lpa[1], threshold))
                  IN  IF selected # <<>>
                      THEN [done |-> TRUE, outcome |-> "filtered",
                            operator |-> operator,
                            companies |-> Prefix(CompanyNames(selected), 5)]
                      ELSE Rephrase
    ELSE Rephrase

\* _handle_multi_hop_query(question, params, db, snippets) for a question the
\* router classified MULTI_HOP: the filter step, and with companies selected
\* the call of _handle_rag_query, which enters synthesize_answer.
HandleMultiHop ==
    /\ route.type = "multi_hop"
    /\ ~high_paying.done
    /\ chain = "NoBackendTried"
    /\ high_paying' = multi_hop_filter(route.params, store)
    /\ IF multi_hop_filter(route.params, store).outcome = "filtered"
       THEN /\ chain' = first_backend(settings)
            /\ attempt' = IF first_backend(settings) = "TryingOpenRouter"
                          THEN 1 ELSE attempt
            /\ answer' = None
       ELSE UNCHANGED <<chain, attempt, answer>>
    /\ UNCHANGED <<question, top_k, filters, index, route, retrieved, snippets,
                   settings, index_up, store, raised, calls, response,
                   embedding, serving, ingestion, store_consulted>>

Row(company_name, salary_max_lpa) ==
    [company_name |-> company_name, salary_max_lpa |-> salary_max_lpa]

\* Stores with the rows search_skills reads.
SkillStore(reads, rows) ==
    [up |-> TRUE, reads |-> reads, company_count |-> 0, company_names |-> <<>>,
     placement_stats |-> [k \in {} |-> <<>>], skills |-> rows]

MultiHopStores ==
    { SkillStore(TRUE, <<Row(<<"A","c","m","e">>, <<20>>), Row(<<"B","e","t","a">>, <<10>>), Row(<<"G","a","m","m","a">>, <<5>>)>>),
      SkillStore(TRUE, <<Row(<<"A","c","m","e">>, <<20>>), Row(<<"G","a","m","m","a">>, <<>>)>>),
      SkillStore(TRUE, <<>>),
      SkillStore(FALSE, <<Row(<<"A","c","m","e">>, <<20>>)>>) }

\* Multi-hop questions: each comparator, a fractional and a zero threshold,
\* a number with no comparator, no number, and a '>' away from the salary.
MultiHopQuestions ==
    { <<"a","m","o","n","g"," ","c","o","m","p","a","n","i","e","s"," ","w","i","t","h"," ","s","a","l","a","r","y"," ",">"," ","1","0"," ","w","h","a","t"," ","s","k","i","l","l","s">>,
      <<"A","m","o","n","g"," ","c","o","m","p","a","n","i","e","s"," ","w","i","t","h"," ","s","a","l","a","r","y"," ","m","o","r","e"," ","t","h","a","n"," ","1","0"," ","w","h","a","t"," ","s","k","i","l","l","s">>,
      <<"a","m","o","n","g"," ","c","o","m","p","a","n","i","e","s"," ","w","i","t","h"," ","s","a","l","a","r","y"," ","l","e","s","s"," ","t","h","a","n"," ","1","0"," ","w","h","a","t"," ","s","k","i","l","l","s">>,
      <<"a","m","o","n","g"," ","c","o","m","p","a","n","i","e","s"," ","w","i","t","h"," ","s","a","l","a","r","y"," ",">","="," ","9",".","5"," ","w","h","a","t"," ","s","k","i","l","l","s">>,
      <<"a","m","o","n","g"," ","c","o","m","p","a","n","i","e","s"," ","w","i","t","h"," ","s","a","l","a","r","y"," ",">"," ","0"," ","w","h","a","t"," ","s","k","i","l","l","s">>,
      <<"a","m","o","n","g"," ","c","o","m","p","a","n","i","e","s"," ","w","i","t","h"," ","s","a","l","a","r","y"," ","1","0"," ","w","h","a","t"," ","s","k","i","l","l","s">>,
      <<"h","i","g","h"," ","p","a","y","i","n","g"," ","c","o","m","p","a","n","i","e","s"," ","w","h","a","t"," ","s","k","i","l","l","s">>,
      <<"a","m","o","n","g"," ",">"," ","3"," ","c","o","m","p","a","n","i","e","s"," ","w","i","t","h"," ","s","a","l","a","r","y"," ","l","e","s","s"," ","t","h","a","n"," ","1","0"," ","s","k","i","l","l","s">> }

InitMultiHop ==
    /\ question \in MultiHopQuestions
    /\ top_k = 5
    /\ filters = NoFilters
    /\ index = <<>>
    /\ route = NotRouted
    /\ retrieved = FALSE
    /\ snippets \in {<<>>,
                     <<passage(Match(1, 90, <<"A","c","m","e">>, <<"D","a","t","a"," ","A","n","a","l","y","s","t">>, 100, 0),
                               MAX_SNIPPET_CHARS)>>}
    /\ settings \in [PINECONE_API_KEY : {<<"k","e","y">>},
                     PINECONE_INDEX_NAME : {<<"j","d","s">>},
                     OPENROUTER_API_KEY : {None, <<"k","e","y">>},
                     GEMINI_API_KEY : {<<"k","e","y">>},
                     GEMINI_AVAILABLE : {TRUE}]
    /\ index_up = TRUE
    /\ store \in MultiHopStores
    /\ Untouched

NextMultiHop == Classify \/ HandleMultiHop \/ OpenRouterAttempt \/ GeminiCall

SpecMultiHop == InitMultiHop /\ [][NextMultiHop]_vars
(***************************************************************************)
(* Requests to the query endpoint, with the settings, the index, the       *)
(* store and the backends they meet.                                       *)
(***************************************************************************)

\* Questions of every type: retrieval, the company count and salary
\* branches, a STRUCTURED question that fits neither, a comparison.
QueryQuestions ==
    { <<"W","h","a","t"," ","i","s"," ","t","h","e"," ","C","T","C","?">>, <<"H","o","w"," ","m","a","n","y"," ","c","o","m","p","a","n","i","e","s"," ","a","r","e"," ","h","i","r","i","n","g","?">>, <<"m","e","d","i","a","n"," ","s","a","l","a","r","y">>,
      <<"r","o","l","e"," ","c","o","u","n","t"," ","2","0","2","4">>, <<"c","o","m","p","a","r","e"," ","s","a","l","a","r","y">>, <<"C","o","u","n","t"," ","o","f"," ","C","O","M","P","A","N","I","E","S">> }

\* Index responses: none, one chunk of Acme Corp, one of each of two companies.
QueryIndexes ==
    { <<>>,
      <<Match(1, 90, <<"A","c","m","e"," ","C","o","r","p">>, <<"D","a","t","a"," ","A","n","a","l","y","s","t">>, 10001, 0)>>,
      <<Match(3, 90, <<"O","t","h","e","r"," ","I","n","c">>, <<"A","n","a","l","y","s","t">>, 400, 10001),
        Match(2, 50, <<"A","c","m","e"," ","C","o","r","p">>, <<"E","n","g","i","n","e","e","r">>, 401, 0)>> }

\* Optional settings values: unset, empty, set.
OptionalKeys == {None, <<>>, <<"k","e","y">>}

\* Stores: one that cannot be opened, one whose reads fail, two that answer.
QueryStores ==
    { [up |-> FALSE, reads |-> FALSE, company_count |-> 5,
       company_names |-> <<<<"A","c","m","e"," ","C","o","r","p">>>>,
       placement_stats |-> [k \in {} |-> <<>>]],
      [up |-> TRUE, reads |-> FALSE, company_count |-> 5,
       company_names |-> <<<<"A","c","m","e"," ","C","o","r","p">>>>,
       placement_stats |-> [k \in {} |-> <<>>]],
      [up |-> TRUE, reads |-> TRUE, company_count |-> 5,
       company_names |-> <<<<"A","c","m","e"," ","C","o","r","p">>, <<"O","t","h","e","r"," ","I","n","c">>>>,
       placement_stats |-> [k \in {"avg_min_salary", "avg_max_salary", "role_count"}
                              |-> IF k = "role_count" THEN <<"1","2">> ELSE <<"6",".","5">>]],
      [up |-> TRUE, reads |-> TRUE, company_count |-> 12,
       company_names |-> <<>>,
       placement_stats |-> [k \in {"role_count"} |-> <<"0">>]] }

\* A request as the endpoint receives it.
InitRequest ==
    /\ question \in QueryQuestions
    /\ top_k \in {1, 2}
    /\ filters \in [company : {None, <<"A","c","m","e"," ","C","o","r","p">>}, year : {None},
                    role_contains : {None, <<"a","n","a","l","y","s","t">>}]
    /\ index \in QueryIndexes
    /\ route = NotRouted
    /\ retrieved = FALSE
    /\ snippets = <<>>
    /\ Untouched

\* The vector index configured or not, reachable or not.
InitOutage ==
    /\ settings \in [PINECONE_API_KEY : OptionalKeys,
                     PINECONE_INDEX_NAME : OptionalKeys,
                     OPENROUTER_API_KEY : {None, <<"k","e","y">>},
                     GEMINI_API_KEY : {None},
                     GEMINI_AVAILABLE : {TRUE}]
    /\ index_up \in BOOLEAN
    /\ store = EmptyStore

\* Every configuration of the generation backends.
InitBackends ==
    /\ settings \in [PINECONE_API_KEY : {<<"k","e","y">>},
                     PINECONE_INDEX_NAME : {<<"j","d","s">>},
                     OPENROUTER_API_KEY : OptionalKeys,
                     GEMINI_API_KEY : OptionalKeys,
                     GEMINI_AVAILABLE : BOOLEAN]
    /\ index_up = TRUE
    /\ store = EmptyStore

\* Every store.
InitStores ==
    /\ settings \in [PINECONE_API_KEY : {<<"k","e","y">>},
                     PINECONE_INDEX_NAME : {<<"j","d","s">>},
                     OPENROUTER_API_KEY : {None, <<"k","e","y">>},
                     GEMINI_API_KEY : {None},
                     GEMINI_AVAILABLE : {TRUE}]
    /\ index_up = TRUE
    /\ store \in QueryStores

InitQuery == InitRequest /\ (InitOutage \/ InitBackends \/ InitStores)

\* POST /query
NextQuery ==
    \/ Classify
    \/ StructuredQuery
    \/ QueryRetrieve
    \/ QuerySynthesize
    \/ OpenRouterAttempt
    \/ GeminiCall
    \/ Respond

SpecQuery == InitQuery /\ [][NextQuery]_vars

\* The steps of the endpoint once retrieve_snippets has returned.
AfterRetrieval == QuerySynthesize \/ OpenRouterAttempt \/ GeminiCall \/ Respond

\* _handle_rag_query(question, snippets, filters): the internal handler
\* passes the snippets it was given straight to synthesize_answer.
HandleRagQuery == ~retrieved /\ SynthesizeAnswer

\* A call of the handler: `snippets` is its argument, empty or not; nothing
\* was retrieved by the call itself.
InitHandler ==
    /\ question \in QueryQuestions
    /\ top_k = 5
    /\ filters = NoFilters
    /\ index = <<>>
    /\ route = NotRouted
    /\ retrieved = FALSE
    /\ snippets \in {<<>>,
                     <<passage(Match(1, 90, <<"A","c","m","e"," ","C","o","r","p">>, <<"D","a","t","a"," ","A","n","a","l","y","s","t">>, 10001, 0),
                               MAX_SNIPPET_CHARS)>>}
    /\ settings \in [PINECONE_API_KEY : {<<"k","e","y">>},
                     PINECONE_INDEX_NAME : {<<"j","d","s">>},
                     OPENROUTER_API_KEY : OptionalKeys,
                     GEMINI_API_KEY : OptionalKeys,
                     GEMINI_AVAILABLE : BOOLEAN]
    /\ index_up = TRUE
    /\ store = EmptyStore
    /\ Untouched

NextHandler == HandleRagQuery \/ OpenRouterAttempt \/ GeminiCall

SpecHandler == InitHandler /\ [][NextHandler]_vars

\* synthesize_answer is sequential code and each post carries timeout=30:
\* a step that can be taken is taken.
SpecHandlerFair == SpecHandler /\ WF_vars(NextHandler)

\* A question put to one of the two classifiers, with the OpenRouter key
\* unset, empty or set.
InitClassifiers ==
    /\ question \in QueryQuestions \cup
                    { <<"H","o","w"," ","m","a","n","y"," ","C","O","M","P","A","N","I","E","S"," ","i","n"," ","2","0","2","4","?">>, <<"b","e","s","t"," ","s","k","i","l","l","s">>, <<>> }
    /\ top_k = 5
    /\ filters = NoFilters
    /\ index = <<>>
    /\ route = NotRouted
    /\ retrieved = FALSE
    /\ snippets = <<>>
    /\ settings \in [PINECONE_API_KEY : {<<"k","e","y">>},
                     PINECONE_INDEX_NAME : {<<"j","d","s">>},
                     OPENROUTER_API_KEY : OptionalKeys,
                     GEMINI_API_KEY : {None, <<"k","e","y">>},
                     GEMINI_AVAILABLE : {TRUE}]
    /\ index_up = TRUE
    /\ store = EmptyStore
    /\ Untouched

NextClassifiers == Classify \/ LlmClassify

SpecClassifiers == InitClassifiers /\ [][NextClassifiers]_vars

\* No instance constructed and no text embedded yet.
InitEmbed ==
    /\ question = <<>>
    /\ top_k = 5
    /\ filters = NoFilters
    /\ index = <<>>
    /\ route = NotRouted
    /\ retrieved = FALSE
    /\ snippets = <<>>
    /\ Serving

NextEmbed == Construct \/ Embed

SpecEmbed == InitEmbed /\ [][NextEmbed]_vars

\* The server before any request, with OpenRouter configured or Gemini only.
InitServer ==
    /\ question = <<>>
    /\ top_k = 5
    /\ filters = NoFilters
    /\ index = << Match(2, 50, <<"A","c","m","e"," ","C","o","r","p">>, <<"E","n","g","i","n","e","e","r">>, 401, 0),
                  Match(3, 90, <<"O","t","h","e","r"," ","I","n","c">>, <<"A","n","a","l","y","s","t">>, 400, 10001) >>
    /\ route = NotRouted
    /\ retrieved = FALSE
    /\ snippets = <<>>
    /\ settings \in [PINECONE_API_KEY : {<<"k","e","y">>},
                     PINECONE_INDEX_NAME : {<<"j","d","s">>},
                     OPENROUTER_API_KEY : {None, <<"k","e","y">>},
                     GEMINI_API_KEY : {<<"g","-","k","e","y">>},
                     GEMINI_AVAILABLE : {TRUE}]
    /\ index_up = TRUE
    /\ store \in {s \in QueryStores : s.reads /\ s.company_names # <<>>}
    /\ Untouched

\* Any request in flight takes its next step.
NextServer ==
    \/ Receive
    \/ WorkerClassify
    \/ WorkerStructured
    \/ WorkerRetrieve
    \/ WorkerSynthesize
    \/ WorkerOpenRouter
    \/ WorkerGeminiConfigure
    \/ WorkerGeminiGenerate
    \/ WorkerRespond

SpecServer == InitServer /\ [][NextServer]_vars

\* An empty index, configured or not, before any file is ingested.
InitIngest ==
    /\ question = <<>>
    /\ top_k = 5
    /\ filters = NoFilters
    /\ index = <<>>
    /\ route = NotRouted
    /\ retrieved = FALSE
    /\ snippets = <<>>
    /\ settings \in [PINECONE_API_KEY : {None, <<"k","e","y">>},
                     PINECONE_INDEX_NAME : {<<"j","d","s">>},
                     OPENROUTER_API_KEY : {None},
                     GEMINI_API_KEY : {None},
                     GEMINI_AVAILABLE : {TRUE}]
    /\ index_up = TRUE
    /\ store = EmptyStore
    /\ Untouched

SpecIngest == InitIngest /\ [][ProcessFile]_vars

\* The program: a request of any of the families above, classified and retrieved.
Init == InitRouter \/ InitRetrieve \/ InitMatch \/ InitQuery \/ InitHandler \/ InitClassifiers \/ InitEmbed \/ InitServer \/ InitIngest \/ InitDetect \/ InitMultiHop \/ InitStructured \/ InitYear

Next == Classify \/ Retrieve \/ NextQuery \/ HandleRagQuery \/ LlmClassify \/ NextEmbed \/ NextServer \/ ProcessFile \/ HandleMultiHop

Spec == Init /\ [][Next]_vars

(***************************************************************************)
(* Properties of the classifier (checked under SpecRouter).                *)
(***************************************************************************)

\* The four pattern groups in the order classify_query tests them.
GroupOrder == <<"multi_hop", "hybrid", "structured", "unstructured">>

GroupPatterns(type) ==
    CASE type = "multi_hop" -> multi_hop_patterns
      [] type = "hybrid" -> hybrid_patterns
      [] type = "structured" -> structured_patterns
      [] type = "unstructured" -> unstructured_patterns

\* Some pattern of the group matches the lower-cased question.
GroupMatches(type) == MatchesPatterns(Lower(question), GroupPatterns(type))

MatchingGroups == {i \in 1..4 : GroupMatches(GroupOrder[i])}

Classified == route.type # "none"

\* C1: the type returned is that of the first group, in the order MULTI_HOP,
\* HYBRID, STRUCTURED, UNSTRUCTURED, with a matching pattern; a question that
\* matches a multi-hop pattern and carries a structured or hybrid cue
\* ("salary", or a structured or hybrid pattern) is MULTI_HOP.
C1_FirstMatchingGroupWins ==
    Classified =>
        /\ MatchingGroups # {} => route.type = GroupOrder[Min(MatchingGroups)]
        /\ ( /\ GroupMatches("multi_hop")
             /\ \/ StrIn(<<"s","a","l","a","r","y">>, Lower(question))
                \/ GroupMatches("structured")
                \/ GroupMatches("hybrid") )
           => route.type = "multi_hop"

\* A multi-hop question that also matches a hybrid and a structured pattern
\* has been classified.
C1_Witness ==
    /\ Classified
    /\ GroupMatches("multi_hop")
    /\ GroupMatches("hybrid")
    /\ GroupMatches("structured")
    /\ StrIn(<<"s","a","l","a","r","y">>, Lower(question))

\* C2: classify_query returns one of the four QueryType values and a params
\* mapping that has the key `query`, for every question.
C2_TypeAndQueryKey ==
    Classified =>
        /\ route.type \in {"structured", "unstructured", "hybrid", "multi_hop"}
        /\ "query" \in DOMAIN route.params

\* A hybrid question with extracted parameters has been classified.
C2_Witness ==
    /\ Classified
    /\ route.type = "hybrid"
    /\ "compare_entities" \in DOMAIN route.params

\* C3: a question that matches no pattern of any group is UNSTRUCTURED and its
\* params are exactly {query: the question as supplied}.
C3_DefaultIsUnstructured ==
    (Classified /\ MatchingGroups = {}) =>
        /\ route.type = "unstructured"
        /\ DOMAIN route.params = {"query"}
        /\ route.params["query"] = question

\* A question with upper-case letters that matches no pattern has been classified.
C3_Witness ==
    /\ Classified
    /\ MatchingGroups = {}
    /\ question # Lower(question)

(***************************************************************************)
(* Properties of the retriever (checked under SpecRetrieve and SpecMatch). *)
(***************************************************************************)

\* The company filter in force: filters.company, or the auto-detected name.
ActiveCompany == detect_company(question, filters)

CompanyFilterActive == Truthy(ActiveCompany)

\* The matches the index returned to the call.
Fetched == index_query(index, query_top_k(question, top_k))

\* Fetched match i is in the result.
Kept(i) == \E j \in 1..Len(snippets) : snippets[j].id = Fetched[i].id

\* The six strategies as the specification lists them, on the lower-cased,
\* trimmed strings c (candidate) and m (metadata company).
Strategy1(c, m) == c = m

Strategy2(c, m) == StrIn(c, m) \/ StrIn(m, c)

Strategy3(c, m) == WordSet(c) \cap WordSet(m) # {}

Strategy4(c, m) == \E w \in WordSet(c) : StrIn(w, m)

Strategy5(c, m) == RemoveSpaces(c) = RemoveSpaces(m)

Strategy6(c, m) == \E w \in WordSet(c) : StrIn(Upper(w), Upper(m))

SixStrategyOr(candidate, meta_company) ==
    LET c == Strip(Lower(candidate))
        m == Strip(Lower(meta_company))
    IN  \/ Strategy1(c, m) \/ Strategy2(c, m) \/ Strategy3(c, m)
        \/ Strategy4(c, m) \/ Strategy5(c, m) \/ Strategy6(c, m)

HasCompany(meta) == meta.company # None /\ meta.company # <<>>

\* C4: with a company filter active and non-empty company metadata, the chunk
\* is kept if and only if one of the six strategies holds; containment in
\* either direction suffices.
C4_KeptIffSomeStrategy ==
    (retrieved /\ CompanyFilterActive) =>
        \A i \in 1..Len(Fetched) :
            HasCompany(Fetched[i].metadata) =>
                (Kept(i) <=> SixStrategyOr(ActiveCompany, Fetched[i].metadata.company))

\* C5: with a company filter active, no returned passage comes from a chunk
\* whose company metadata is missing or empty.
C5_UntaggedChunksExcluded ==
    (retrieved /\ CompanyFilterActive) =>
        \A j \in 1..Len(snippets) : HasCompany(snippets[j].metadata)

\* A company-filtered call has returned passages although the index also
\* returned a chunk without company metadata.
C5_Witness ==
    /\ retrieved
    /\ CompanyFilterActive
    /\ \E i \in 1..Len(Fetched) : ~HasCompany(Fetched[i].metadata)
    /\ Len(snippets) > 0

\* C6: a candidate that, lower-cased and trimmed, equals the chunk's company
\* metadata or occurs inside it always matches (the chunk is kept).
C6_EqualOrInsideMatches ==
    (retrieved /\ CompanyFilterActive) =>
        \A i \in 1..Len(Fetched) :
            LET c == Strip(Lower(ActiveCompany))
                m == Strip(Lower(Fetched[i].metadata.company))
            IN  (HasCompany(Fetched[i].metadata) /\ (c = m \/ StrIn(c, m))) => Kept(i)

\* C7: for top_k >= 1 the result has at most top_k passages without a
\* full-document phrase, and at most 50 with one.
C7_ResultCap ==
    (retrieved /\ top_k >= 1) =>
        IF is_full_jd_request(question)
        THEN Len(snippets) <= 50
        ELSE Len(snippets) <= top_k

\* A full-document request with a small top_k returned 50 of more than 50
\* candidates that passed the filters.
C7_Witness ==
    /\ retrieved
    /\ is_full_jd_request(question)
    /\ top_k >= 1
    /\ top_k < 50
    /\ Len(Fetched) > 50
    /\ Len(snippets) = 50

\* C8: the result is sorted by score, non-increasing.
C8_SortedByScore ==
    retrieved =>
        \A j \in 1..(Len(snippets) - 1) : snippets[j].score >= snippets[j + 1].score

\* The index returned a lower score before a higher one and both passages
\* are in the result.
C8_Witness ==
    /\ retrieved
    /\ \E i, k \in 1..Len(Fetched) :
          /\ i < k
          /\ Fetched[i].score < Fetched[k].score
          /\ Kept(i)
          /\ Kept(k)

ModeLimit == IF is_full_jd_request(question) THEN 10000 ELSE 400

\* C10: every passage text is the prefix of the chunk's stored text (the
\* chunk_text, else the preview) cut at 400 characters for an ordinary
\* request and at 10000 for a full-document request, never at the other limit.
C10_TextTruncation ==
    retrieved =>
        \A j \in 1..Len(snippets) :
            LET meta == snippets[j].metadata
                text == snippets[j].text
                stored == IF meta.chunk_text > 0 THEN meta.chunk_text ELSE meta.preview
            IN  /\ text.field = (IF meta.chunk_text > 0 THEN "chunk_text"
                                 ELSE IF meta.preview > 0 THEN "preview" ELSE "empty")
                /\ text.len <= ModeLimit
                /\ text.len = (IF stored <= ModeLimit THEN stored ELSE ModeLimit)

\* A full-document request returned a passage cut at 10000 characters from a
\* longer stored text.
C10_Witness ==
    /\ retrieved
    /\ is_full_jd_request(question)
    /\ \E j \in 1..Len(snippets) :
          /\ snippets[j].text.len = 10000
          /\ snippets[j].metadata.chunk_text > 10000


(***************************************************************************)
(* Properties of the query endpoint and of answer synthesis                *)
(***************************************************************************)

\* Both the API key and the index name are set.
IndexConfigured ==
    Truthy(settings.PINECONE_API_KEY) /\ Truthy(settings.PINECONE_INDEX_NAME)

\* C11: when the vector index is not configured (API key or index name
\* missing) or its query fails, retrieve_snippets leaves with an exception:
\* no list, empty or not, is returned, and the endpoint sends no response.
C11_IndexFailurePropagates ==
    (retrieved /\ (~IndexConfigured \/ ~index_up))
        => /\ raised # NoException
           /\ snippets = <<>>
           /\ ~response.sent

\* retrieve_snippets was called without an index name against an index that
\* holds matches, and raised.
C11_Witness ==
    /\ retrieved
    /\ ~IndexConfigured
    /\ index_up
    /\ index # <<>>
    /\ raised = "RuntimeError"

\* The company and role filters of the request let fetched match m through.
PassesFilters(m) ==
    /\ company_keeps(ActiveCompany, m.metadata)
    /\ role_contains(m.metadata, filters.role_contains)

\* The index answered and the filters exclude every candidate it returned.
AllExcluded ==
    /\ IndexConfigured
    /\ index_up
    /\ \A i \in 1..Len(Fetched) : ~PassesFilters(Fetched[i])

\* C12: when the company and role filters exclude every fetched candidate,
\* retrieve_snippets returns the empty list and raises nothing; the endpoint
\* then responds with empty snippets and no answer, and synthesize_answer is
\* never entered (no backend is called).
C12_AllExcludedIsEmptyNotError ==
    (retrieved /\ AllExcluded)
        => /\ raised = NoException
           /\ snippets = <<>>
           /\ chain = "NoBackendTried"
           /\ calls = <<>>
           /\ response.sent => (response.snippets = <<>> /\ response.answer = None)

\* The endpoint has responded to a request whose filters excluded both of
\* the two fetched candidates, with a generation backend configured.
C12_Witness ==
    /\ retrieved
    /\ AllExcluded
    /\ Len(Fetched) = 2
    /\ Truthy(settings.OPENROUTER_API_KEY)
    /\ response.sent

\* C13: synthesize_answer entered with an empty passage list returns None
\* and calls no generation backend, whatever backends are configured and
\* whoever the caller is.
C13_EmptyPassagesNoBackendCall ==
    (snippets = <<>> /\ chain # "NoBackendTried")
        => /\ calls = <<>>
           /\ chain = "Returned" => answer = None

\* A reply that is a failure of the backend: an exception or a timeout, a
\* status other than 200, or a completion without text.
FailedReply(reply) ==
    \/ reply.kind # "response"
    \/ reply.status # 200
    \/ reply.content = NoChoices
    \/ ~Truthy(choice_text(reply))

GeminiConfigured == Truthy(settings.GEMINI_API_KEY) /\ settings.GEMINI_AVAILABLE

OpenRouterConfigured == Truthy(settings.OPENROUTER_API_KEY) /\ OPENROUTER_AVAILABLE

Called(backend) == \E i \in 1..Len(calls) : calls[i].backend = backend

\* C14: a failing backend means "try the next one": synthesize_answer does
\* not return on the failure of OpenRouter while Gemini is configured and
\* has not been tried.
C14_FailureMovesToNextBackend ==
    (chain = "Returned" /\ GeminiConfigured /\ calls # <<>>
        /\ calls[Len(calls)].backend = "openrouter"
        /\ FailedReply(calls[Len(calls)].reply))
        => Called("gemini")

\* C15: what synthesize_answer returns is None or the non-empty text a
\* backend produced; with every configured backend exhausted it is None,
\* never a message standing in for the answer.
C15_AnswerIsBackendTextOrNone ==
    chain = "Returned" =>
        \/ answer = None
        \/ /\ answer # <<>>
           /\ calls # <<>>
           /\ ~FailedReply(calls[Len(calls)].reply)
           /\ answer = Strip(choice_text(calls[Len(calls)].reply))

\* C16: with no generation backend configured and passages retrieved,
\* synthesize_answer returns None and calls no backend, and the endpoint
\* returns the whole passage list with no answer.
C16_NoBackendStillReturnsPassages ==
    (retrieved /\ raised = NoException /\ snippets # <<>>
        /\ ~OpenRouterConfigured /\ ~GeminiConfigured)
        => /\ calls = <<>>
           /\ chain \in {"NoBackendTried", "Returned"}
           /\ answer = None
           /\ response.sent =>
                (response.snippets = snippets /\ response.answer = None)

\* The endpoint has responded with two passages after synthesize_answer
\* returned with an empty OpenRouter key and a Gemini key whose package is
\* missing.
C16_Witness ==
    /\ response.sent
    /\ Len(response.snippets) = 2
    /\ chain = "Returned"
    /\ settings.OPENROUTER_API_KEY = <<>>
    /\ Truthy(settings.GEMINI_API_KEY)
    /\ ~settings.GEMINI_AVAILABLE

Backends == {"openrouter", "gemini"}

\* The number of calls made to a backend.
AttemptsOf(backend) ==
    Cardinality({i \in 1..Len(calls) : calls[i].backend = backend})

\* The calls to one backend are consecutive: a backend that was left is not
\* called again.
RetriesAreLocal ==
    \A i, j, k \in 1..Len(calls) :
        (i < j /\ j < k /\ calls[i].backend = calls[k].backend)
            => calls[j].backend = calls[i].backend

\* C17: the generation chain goes from no backend tried, through the
\* attempts on one backend at a time, to a return: no backend is attempted
\* more than 2 times, a backend once left is not called again, and every
\* call of synthesize_answer returns after a bounded number of backend calls
\* even when every call fails.
C17_BoundedLocalRetriesAndReturn ==
    /\ [](/\ \A b \in Backends : AttemptsOf(b) <= 2
          /\ RetriesAreLocal
          /\ Len(calls) <= 2 * Cardinality(Backends)
          /\ chain = "Returned" => attempt <= 2)
    /\ (chain # "NoBackendTried") ~> (chain = "Returned")

\* synthesize_answer has returned after two failed calls to OpenRouter.
C17_Witness ==
    /\ chain = "Returned"
    /\ Len(calls) = 2
    /\ \A i \in 1..2 :
         calls[i].backend = "openrouter" /\ FailedReply(calls[i].reply)

\* The question was classified STRUCTURED with entity = "companies".
CompanyCountQuestion ==
    /\ route.type = "structured"
    /\ "entity" \in DOMAIN route.params
    /\ route.params["entity"] = "companies"

\* C19: a STRUCTURED question asking for a company count is answered from
\* the structured store (one that can be opened): the answer text contains
\* the company_count the store returned, the snippets are empty, and neither
\* the retriever nor a generation backend is invoked.
C19_CompanyCountFromStore ==
    (CompanyCountQuestion /\ store.up)
        => /\ ~retrieved
           /\ calls = <<>>
           /\ chain = "NoBackendTried"
           /\ response.sent =>
                /\ response.snippets = <<>>
                /\ StrIn(PyStr(IF store.reads THEN store.company_count ELSE 0),
                         response.answer)

\* "How many companies are hiring?" was answered from a store that counts
\* 12 companies, with a generation backend configured and an index that
\* holds matches.
C19_Witness ==
    /\ question = <<"H","o","w"," ","m","a","n","y"," ","c","o","m","p","a","n","i","e","s"," ","a","r","e"," ","h","i","r","i","n","g","?">>
    /\ CompanyCountQuestion
    /\ store.up /\ store.reads
    /\ store.company_count = 12
    /\ index # <<>>
    /\ Truthy(settings.OPENROUTER_API_KEY)
    /\ response.sent
    /\ StrIn(<<"1","2"," ","c","o","m","p","a","n","i","e","s">>, response.answer)

\* The request is handled by the retrieval path: it is classified, and the
\* STRUCTURED branch does not answer it.
RetrievalPath ==
    /\ route.type # "none"
    /\ route.type = "structured" => structured_answer(question, store) = None

\* The request has not failed; it has been answered with the list that
\* retrieve_snippets returned, or a step remains to be taken: the call of
\* retrieve_snippets, or one of the steps after it.
SucceedsWithList ==
    /\ raised = NoException
    /\ response.sent \/ ~retrieved \/ ENABLED AfterRetrieval
    /\ response.sent =>
          /\ retrieved
          /\ response.snippets = retrieve_snippets(question, top_k, filters, index)

StructuredFallback ==
    /\ route.type = "structured"
    /\ \/ ~store.up
       \/ ~asks_company_count(question) /\ ~StrIn(<<"s","a","l","a","r","y">>, Lower(question))

\* The request has not failed, and what it was answered with is what the
\* retrieval path yields: the list of retrieve_snippets and, for a list that
\* is not empty, the answer of synthesize_answer; until then a step remains.
AnsweredByRetrievalPath ==
    /\ raised = NoException
    /\ response.sent \/ ~retrieved \/ ENABLED AfterRetrieval
    /\ retrieved => store_consulted
    /\ response.sent =>
          /\ retrieved
          /\ response.snippets = retrieve_snippets(question, top_k, filters, index)
          /\ response.answer = IF response.snippets = <<>> THEN None ELSE answer

\* The store is left alone for an UNSTRUCTURED question.
UnstructuredLeavesStore == route.type = "unstructured" => ~store_consulted

Labels == { <<"S","Q","L">>, <<"R","A","G">>, <<"H","Y","B","R","I","D">> }

\* The post raised or timed out, or the status is not 200.
NoUsableReply(reply) == reply.kind # "response" \/ reply.status # 200

\* The response text holds none of the three labels as written.
NoLabelLiteral(reply) ==
    \/ reply.content \in {NoChoices, None}
    \/ \A l \in Labels : ~StrIn(l, reply.content)

\* The response text holds none of the three labels in any letter case.
NoLabelAnyCase(reply) ==
    \/ reply.content \in {NoChoices, None}
    \/ \A l \in Labels : ~StrIn(l, Upper(reply.content))

KeySet == Truthy(settings.OPENROUTER_API_KEY)

\* A step of _llm_classify_query never raises, makes no call without a key,
\* and yields HYBRID when there is no key, no usable reply, or no label in
\* the reply in the sense of NoLabel.
LlmStepDefaultsToHybrid(NoLabel(_)) ==
    LlmClassify =>
        /\ raised' = NoException
        /\ route'.type \in {"structured", "unstructured", "hybrid"}
        /\ ~KeySet => (calls' = calls /\ route'.type = "hybrid")
        /\ (KeySet /\ (NoUsableReply(calls'[Len(calls')].reply)
                        \/ NoLabel(calls'[Len(calls')].reply)))
              => route'.type = "hybrid"

\* classify_query makes no call to a backend.
PatternStepCallsNothing == Classify => calls' = calls

\* C18 as stated: _llm_classify_query returns HYBRID whenever no key is
\* configured, the call raises or times out, the status is not 200, or the
\* response contains none of the literals SQL, RAG, HYBRID; it never raises;
\* classify_query never invokes it.
C18_LlmDefaultsToHybrid_Literal ==
    /\ [][LlmStepDefaultsToHybrid(NoLabelLiteral)]_vars
    /\ [][PatternStepCallsNothing]_vars

\* C18 amended: the same, with the three labels looked for in the
\* upper-cased response, so that "sql" or "Rag" count as labels.
C18_LlmDefaultsToHybrid ==
    /\ [][LlmStepDefaultsToHybrid(NoLabelAnyCase)]_vars
    /\ [][PatternStepCallsNothing]_vars

\* The classifier was called with a key set, the response named no label,
\* and the question was classified HYBRID with the fallback recorded.
C18_Witness ==
    /\ route.type = "hybrid"
    /\ calls # <<>>
    /\ calls[Len(calls)].backend = "classifier"
    /\ ~NoUsableReply(calls[Len(calls)].reply)
    /\ calls[Len(calls)].reply.content = <<"I"," ","c","a","n","n","o","t"," ","t","e","l","l">>
    /\ "fallback" \in DOMAIN route.params

(***************************************************************************)
(* Properties of the fallback embedding                                    *)
(***************************************************************************)

\* Call i was made on an instance that has no learned model.
Modelless(i) == backends[embedded[i].instance].model = "None"

\* C20: the fallback embedding is deterministic: two embed calls with the
\* same list of texts on instances without a learned model, the same
\* instance or not, return identical vectors of the same fixed
\* dimensionality, whatever was constructed or embedded in between.
C20_FallbackEmbeddingDeterministic ==
    \A i, j \in 1..Len(embedded) :
        (Modelless(i) /\ Modelless(j) /\ embedded[i].texts = embedded[j].texts)
            => /\ embedded[i].vectors = embedded[j].vectors
               /\ \A k \in 1..Len(embedded[i].vectors) :
                    Len(embedded[i].vectors[k].vec) = DefaultDim

\* The same texts were embedded on two different instances without a model,
\* constructed under different model names, with other texts embedded in
\* between.
C20_Witness ==
    /\ Len(embedded) = 3
    /\ Modelless(1) /\ Modelless(3)
    /\ embedded[1].instance # embedded[3].instance
    /\ backends[embedded[1].instance].model_name
         # backends[embedded[3].instance].model_name
    /\ embedded[1].texts = embedded[3].texts
    /\ embedded[2].texts # embedded[1].texts
    /\ embedded[2].vectors # embedded[1].vectors

(***************************************************************************)
(* Properties of requests served at once                                   *)
(***************************************************************************)

RECURSIVE AloneOpenRouter(_, _)
\* What the retry loop returns on the request's replies, from pass n on.
AloneOpenRouter(replies, n) ==
    LET r == openrouter_attempt(replies[n])
    IN  IF r.returns THEN r.value
        ELSE IF n < OPENROUTER_ATTEMPTS THEN AloneOpenRouter(replies, n + 1)
        ELSE OpenRouterFailedText

\* The answer synthesize_answer gives the request when it runs alone.
AloneAnswer(req) ==
    IF first_backend(settings) = "TryingOpenRouter"
    THEN AloneOpenRouter(req.openrouter, 1)
    ELSE IF first_backend(settings) = "TryingGemini" THEN gemini_call(req.gemini)
    ELSE None

\* The request is answered by the STRUCTURED branch.
AloneStructured(req) ==
    /\ classify_query(req.question).type = "structured"
    /\ structured_answer(req.question, store) # None

\* The passages the request gets when it runs alone.
AloneSnippets(req) ==
    retrieve_snippets(req.question, req.top_k, req.filters, index)

\* The response the request gets when it runs alone against the same index,
\* store and settings.
AloneResponse(req) ==
    IF AloneStructured(req)
    THEN [snippets |-> <<>>, answer |-> structured_answer(req.question, store),
          sent |-> TRUE]
    ELSE [snippets |-> AloneSnippets(req),
          answer |-> IF AloneSnippets(req) = <<>> THEN None ELSE AloneAnswer(req),
          sent |-> TRUE]

\* C21: under any interleaving of the requests in flight, each request's
\* classification, passages and answer are those it produces when it runs
\* alone against the same index, store and settings.
C21_RequestsDoNotInterfere ==
    \A w \in 1..Len(workers) :
        LET me == workers[w]
        IN  /\ me.at = "classified" => me.route = classify_query(me.question)
            /\ me.at = "retrieved" => me.snippets = AloneSnippets(me)
            /\ (me.at = "synthesizing" /\ me.chain = "Returned")
                    => me.answer = AloneAnswer(me)
            /\ me.at = "responded" => me.response = AloneResponse(me)
            /\ me.at # "failed"

\* Two different requests were both answered from retrieved passages, each
\* with an answer of its own, and the one received second filled its result
\* list first.
C21_Witness ==
    /\ Len(workers) = 2
    /\ workers[1].at = "responded" /\ workers[2].at = "responded"
    /\ workers[1].question # workers[2].question
    /\ workers[1].response.snippets # <<>> /\ workers[2].response.snippets # <<>>
    /\ workers[1].response.snippets # workers[2].response.snippets
    /\ workers[1].response.answer # None /\ workers[2].response.answer # None
    /\ workers[1].response.answer # workers[2].response.answer
    /\ Len(process.lists) = 2
    /\ Prefix(process.lists[1], workers[2].top_k) = workers[2].response.snippets
    /\ process.lists[1] # process.lists[2]

(***************************************************************************)
(* Properties of ingestion                                                 *)
(***************************************************************************)

\* Runs i and j, i before j, ingested the same file into a configured index.
SameFileTwice(i, j) ==
    /\ i < j
    /\ runs[i].file = runs[j].file
    /\ IndexConfigured

\* Both runs report a chunk, produce the same ids, and the second leaves the
\* set of ids in the index as it found it.
Idempotent(i, j) ==
    /\ runs[i].n >= 1
    /\ runs[j].n >= 1
    /\ runs[i].ids = runs[j].ids
    /\ runs[j].after = runs[j].before

ResultCap == IF is_full_jd_request(question) THEN 50 ELSE top_k

\* The fetched candidates that pass the company and role filters.
Passing == {i \in 1..Len(Fetched) : PassesFilters(Fetched[i])}

\* C24: the result is exactly the min(cap, n) highest-scoring of the n
\* fetched candidates that pass the company and role filters: every passage
\* is one of them, none left out scores strictly higher than a passage in the
\* result, and none is left out while the result holds fewer than cap.
C24_TopOfPassingCandidates ==
    (retrieved /\ raised = NoException /\ top_k >= 0) =>
        LET passing == Passing
            fetched == Fetched
            kept == {i \in passing : \E j \in 1..Len(snippets) : snippets[j].id = fetched[i].id}
            lowest == Min({snippets[j].score : j \in 1..Len(snippets)} \cup {1000})
        IN  /\ Len(snippets) = Min({ResultCap, Cardinality(passing)})
            /\ \A j \in 1..Len(snippets) :
                  \E i \in passing : /\ snippets[j].id = fetched[i].id
                                     /\ snippets[j].score = fetched[i].score
            /\ \A j, k \in 1..Len(snippets) : j # k => snippets[j].id # snippets[k].id
            /\ \A i \in passing \ kept :
                  /\ fetched[i].score <= lowest
                  /\ Len(snippets) >= ResultCap

\* More candidates passed the filters than the cap allows, some candidate did
\* not pass, and a candidate that was left out came before a higher-scoring
\* one that is in the result.
C24_Witness ==
    /\ retrieved
    /\ top_k >= 1
    /\ Cardinality(Passing) > ResultCap
    /\ Cardinality(Passing) < Len(Fetched)
    /\ Len(snippets) = ResultCap
    /\ \E i, k \in Passing :
          /\ i < k
          /\ ~Kept(i)
          /\ Kept(k)
          /\ Fetched[i].score < Fetched[k].score

\* The positions in the lower-cased question where a connector starts.
ConnectorPositions(question_lower) ==
    {p \in 1..Len(question_lower) :
        OccursAt(question_lower, <<"o","f"," ">>, p) \/ OccursAt(question_lower, <<"f","o","r"," ">>, p)}

\* The up-to-three words after the first occurrence of a connector.
WordsAfterFirstConnector(question_lower) ==
    LET p == Min(ConnectorPositions(question_lower))
        after == IF OccursAt(question_lower, <<"o","f"," ">>, p) THEN p + 3 ELSE p + 4
    IN  Join(<<" ">>, Prefix(Split(SubSeq(question_lower, after, Len(question_lower))), 3))

\* The company the retrieval is to work with: the supplied one, else the
\* words after the first connector, else none.
ExpectedCompany ==
    IF Truthy(filters.company) THEN filters.company
    ELSE IF ConnectorPositions(Lower(question)) = {} THEN None
    ELSE WordsAfterFirstConnector(Lower(question))

\* C25: retrieval never raises in the detection step; a supplied
\* filters.company is the company used; without one the company is the up to
\* three words after the first occurrence of "of " or "for " in the
\* lower-cased question, and with no connector or no word after it there is
\* no company: nothing is filtered by company and the embedded text carries
\* no company tag.
C25_CompanyFromFirstConnector ==
    retrieved =>
        LET expected == ExpectedCompany
        IN  /\ raised = NoException
            /\ Truthy(expected) => ActiveCompany = expected
            /\ ~Truthy(expected) =>
                  /\ ~Truthy(ActiveCompany)
                  /\ embedded_question(question, ActiveCompany) = question
            /\ snippets = result_slice(
                              sort_by_score(scored_of(Fetched, expected, filters,
                                                      snippet_limit(question))),
                              question, top_k)

\* The number of candidates the call asks the index for.
FetchSize == query_top_k(question, top_k)

\* C26: the fetch size is max(50, 8 * top_k) for a full-document request and
\* max(20, 4 * top_k) otherwise, the index is asked for that many candidates,
\* and for top_k >= 1 it is at least the result cap of the mode and strictly
\* larger than top_k.
C26_FetchSizeCoversCap ==
    (retrieved /\ raised = NoException) =>
        /\ FetchSize = IF is_full_jd_request(question)
                       THEN Max(50, 8 * top_k) ELSE Max(20, 4 * top_k)
        /\ Len(Fetched) = Min({FetchSize, Len(index)})
        /\ top_k >= 1 => FetchSize >= ResultCap /\ FetchSize > top_k

\* A call whose top_k lifts the fetch size above its floor, against an index
\* that holds more candidates than are fetched.
C26_Witness ==
    /\ retrieved
    /\ top_k >= 1
    /\ FetchSize > 50
    /\ Len(index) > FetchSize
    /\ Len(Fetched) = FetchSize
    /\ Len(snippets) = ResultCap

\* C30: the result of retrieve_snippets does not depend on filters.year: the
\* call with any other year, everything else the same, returns the same
\* passages in the same order.
C30_ResultIndependentOfYear ==
    (retrieved /\ raised = NoException) =>
        \A year \in YearValues :
            snippets = retrieve_snippets(question, top_k,
                                         [filters EXCEPT !.year = year], index)

\* A call with a year in its filters returned a passage of that year and a
\* passage of another year.
C30_Witness ==
    /\ retrieved
    /\ Truthy(filters.year)
    /\ \E j \in 1..Len(snippets) : snippets[j].metadata.year = IntOf(filters.year)
    /\ \E j \in 1..Len(snippets) :
          /\ snippets[j].metadata.year # 0
          /\ snippets[j].metadata.year # IntOf(filters.year)

(***************************************************************************)
(* Properties of the multi-hop path (checked under SpecMultiHop)           *)
(***************************************************************************)

\* The comparator of the first "salary <comparator> <number>" in the
\* lower-cased question, None when there is none.
SalaryCue ==
    LET q == Lower(question)
        ms == SalaryMatches(q)
    IN  IF ms = {} THEN None
        ELSE LET s == Min({sd[1] : sd \in ms})
                 d == CHOOSE x \in 1..Len(q) : <<s, x>> \in ms
             IN  CHOOSE op \in SalaryComparators :
                    \E o \in (s + 6)..(d - Len(op)) :
                       /\ OccursAt(q, op, o)
                       /\ \A i \in (s + 6)..(o - 1) : IsSpace(q[i])
                       /\ \A i \in (o + Len(op))..(d - 1) : IsSpace(q[i])

\* The operator the comparator stands for.
CueOperator == IF SalaryCue = <<"l","e","s","s"," ","t","h","a","n">> THEN "<" ELSE ">"

\* The companies of the store whose salary stands in the operator's relation
\* to the threshold.
CompaniesBy(operator, threshold) ==
    CompanyNames(SelectSeq(search_skills(store), LAMBDA c :
        IF operator = "<" THEN Below(c.salary_max_lpa[1], threshold)
        ELSE Exceeds(c.salary_max_lpa[1], threshold)))

\* The store answers and every row has a salary.
SalariesKnown ==
    \A i \in 1..Len(search_skills(store)) :
        search_skills(store)[i].salary_max_lpa # <<>>

\* C27: for a MULTI_HOP question with a number next to "salary",
\* salary_threshold is that number and salary_operator is ">" for a ">" or
\* "more than" cue and "<" for "less than"; the operator the filter step
\* works with is ">" when the parameters carry none; and the companies the
\* filter step selects are those whose salary stands in that operator's
\* relation to the threshold.
C27_SalaryFilterFollowsComparator ==
    (route.type = "multi_hop" /\ high_paying.done) =>
        /\ SalaryCue # None =>
              /\ "salary_threshold" \in DOMAIN route.params
              /\ route.params.salary_operator = CueOperator
        /\ high_paying.outcome = "filtered" =>
              /\ high_paying.operator =
                    (IF "salary_operator" \in DOMAIN route.params
                     THEN route.params.salary_operator ELSE ">")
              /\ high_paying.companies =
                    CompaniesBy(high_paying.operator, route.params.salary_threshold)
        /\ ( /\ "salary_threshold" \in DOMAIN route.params
             /\ TruthyFloat(route.params.salary_threshold)
             /\ SalariesKnown
             /\ CompaniesBy(CueOperator, route.params.salary_threshold) # <<>> )
           => /\ high_paying.outcome = "filtered"
              /\ high_paying.companies =
                    CompaniesBy(CueOperator, route.params.salary_threshold)

(***************************************************************************)
(* Properties of the structured extraction (checked under SpecStructured)  *)
(***************************************************************************)

\* The specialization vocabulary, in its order.
SpecializationVocabulary ==
    << <<"m","a","r","k","e","t","i","n","g">>, <<"f","i","n","a","n","c","e">>, <<"h","r">>, <<"o","p","e","r","a","t","i","o","n","s">>, <<"s","t","r","a","t","e","g","y">>, <<"i","t">>, <<"a","n","a","l","y","t","i","c","s">>,
       <<"h","u","m","a","n"," ","r","e","s","o","u","r","c","e","s">>, <<"s","u","p","p","l","y"," ","c","h","a","i","n">>, <<"c","o","n","s","u","l","t","i","n","g">>, <<"d","i","g","i","t","a","l"," ","t","r","a","n","s","f","o","r","m","a","t","i","o","n">> >>

\* The metrics in priority order, each with the words that ask for it.
MetricCues ==
    << [value |-> "median", cues |-> {<<"m","e","d","i","a","n">>}],
       [value |-> "average", cues |-> {<<"a","v","e","r","a","g","e">>, <<"a","v","g">>}],
       [value |-> "range", cues |-> {<<"r","a","n","g","e">>}],
       [value |-> "max", cues |-> {<<"h","i","g","h","e","s","t">>, <<"m","a","x">>}],
       [value |-> "min", cues |-> {<<"l","o","w","e","s","t">>, <<"m","i","n">>}] >>

\* The entities in priority order.
EntityCues ==
    << [value |-> "companies", cues |-> {<<"c","o","m","p","a","n","i","e","s">>}],
       [value |-> "roles", cues |-> {<<"r","o","l","e","s">>}],
       [value |-> "offers", cues |-> {<<"o","f","f","e","r","s">>}] >>

\* The entries of a priority list with a cue in the text.
CuesPresent(list, text) ==
    {i \in 1..Len(list) : \E cue \in list[i].cues : StrIn(cue, text)}

\* The keywords of the vocabulary that occur in the text.
KeywordsPresent(text) ==
    {i \in 1..Len(SpecializationVocabulary) : StrIn(SpecializationVocabulary[i], text)}

\* The positions where four digits stand in a row.
FourDigits(text) ==
    {p \in 1..(Len(text) - 3) : \A k \in 0..3 : IsDigit(text[p + k])}

\* C28: the params of a STRUCTURED question hold one value per field:
\* specialization is the title-cased keyword of the vocabulary that occurs in
\* the question, the earliest in vocabulary order when several occur; metric
\* is set only if "salary" occurs, by the priority median, average, range,
\* max, min; entity is set only if "count" or "how many" occurs, by the
\* priority companies, roles, offers; year is set only if four digits occur.
C28_StructuredParams ==
    route.type = "structured" =>
        LET q == Lower(question)
            p == route.params
            has(key) == key \in DOMAIN p
            keywords == KeywordsPresent(q)
            metrics == CuesPresent(MetricCues, q)
            entities == CuesPresent(EntityCues, q)
            counting == StrIn(<<"c","o","u","n","t">>, q) \/ StrIn(<<"h","o","w"," ","m","a","n","y">>, q)
        IN  /\ DOMAIN p \subseteq {"query", "year", "specialization", "metric", "entity"}
            /\ has("specialization") <=> keywords # {}
            /\ has("specialization") =>
                  p.specialization = Title(SpecializationVocabulary[Min(keywords)])
            /\ has("metric") <=> (StrIn(<<"s","a","l","a","r","y">>, q) /\ metrics # {})
            /\ has("metric") => p.metric = MetricCues[Min(metrics)].value
            /\ has("entity") <=> (counting /\ entities # {})
            /\ has("entity") => p.entity = EntityCues[Min(entities)].value
            /\ has("year") <=> FourDigits(q) # {}
            /\ has("year") =>
                  p.year = IntOf(SubSeq(q, Min(FourDigits(q)), Min(FourDigits(q)) + 3))

\* A STRUCTURED question in which two keywords of the vocabulary occur, the
\* later of the vocabulary first in the text.
C28_Witness ==
    /\ route.type = "structured"
    /\ Cardinality(KeywordsPresent(Lower(question))) >= 2
    /\ StrIn(<<"i","t"," ","f","i","n","a","n","c","e">>, Lower(question))
    /\ route.params.specialization = <<"F","i","n","a","n","c","e">>

====
